---------------------------- MODULE Spec2Model ----------------------------
(***************************************************************************)
(* AuthInbox e-mail worker: the repeat gate for password-reset codes, the  *)
(* multi-credential AI dispatch (gate-enabled variant with                 *)
(* callSingleGoogleAPI, and the inline-fetch variant), and the e-mail      *)
(* handler with its retry loop.                                            *)
(***************************************************************************)
EXTENDS Integers, Sequences, FiniteSets, TLC

(* ------------------------------ bounds -------------------------------- *)
\* number of gate evaluations recorded in one run of the gate specification
MaxEvals == 5
\* primary credentials configured in the dispatch specification: 0..MaxKeys
MaxKeys == 3
\* minute buckets the clock runs through: 0..MaxMinute
MaxMinute == 3
\* milliseconds the clock advances in one step
ClockStep == 30000
\* dispatches whose selection the clock specification remembers
MaxSelections == 3
\* primary credentials configured in the e-mail specification: 0..MaxMailKeys
MaxMailKeys == 2
\* e-mails delivered in one run of the e-mail specification
MaxDeliveries == 2
\* Bark tokens configured in the e-mail specification
MaxTokens == 2
\* concurrent invocations of email() for the same message id
MaxRacers == 3
\* concurrent gate evaluations for the same key
MaxEvaluators == 4
\* minutes that pass in one step of the ageing specification, and its steps
AgeStepMinutes == 20
MaxAgeSteps == 2
\* gate evaluations in a run in which statements may fail
MaxFaultyEvals == 3
\* e-mails the module-cursor worker handles in one process
MaxCursorMails == 2

(* ------------------------- program constants -------------------------- *)
\* `return newCount >= 3`
Threshold == 3
\* `const maxRetries = 3`
maxRetries == 3
\* `1000 * 60`
MsPerMinute == 60000
\* `1000 * (retryCount + 1)`
BackoffBase == 1000
\* `datetime('now', '-30 minutes')`
TtlMinutes == 30

(* ------------------------------ values -------------------------------- *)
\* recipient addresses (result.title) used as gate keys
Emails == {"a@x", "b@x"}
\* verification codes
Codes == {"111111", "222222"}
\* "" stands for a field that is missing or empty (both are falsy in JS)
Types == {"LOGIN", "PASSWORD_RESET", "OTHER", ""}
ReleaseTopic == "Password reset verification (repeated 3 times)"
Topics == {"login"}

\* a row of password_reset_history is (email, code, count); no row: NoRecord
NoRecord == [code |-> "", count |-> 0]

\* a parsed AI result object
Obj(ty, ce, ti, co, tp) ==
    [kind |-> "obj", type |-> ty, codeExist |-> ce, title |-> ti, code |-> co, topic |-> tp]
\* the literal { codeExist: 0 }
CodeExist0 == Obj("", 0, "", "", "")
\* JSON.parse results: objects, null, and falsy primitives (0, false, "")
JNull == [kind |-> "null", type |-> "", codeExist |-> 0, title |-> "", code |-> "", topic |-> ""]
JFalsy == [kind |-> "falsy", type |-> "", codeExist |-> 0, title |-> "", code |-> "", topic |-> ""]
\* extractedData = null (nothing extracted yet)
Nothing == [kind |-> "nothing", type |-> "", codeExist |-> 0, title |-> "", code |-> "", topic |-> ""]

\* a 2xx answer whose JSON body is itself falsy (null, 0, false, ""):
\* response.json() resolves to it and `if (result)` takes it for no result
EmptyBody == [kind |-> "emptybody"]

\* what a provider's 2xx body can hold besides a parsed object: no
\* candidates[0].content.parts[0] at all, or a text JSON.parse (or .match) throws on
NoStruct == [kind |-> "nostruct", type |-> "", codeExist |-> 0, title |-> "", code |-> "", topic |-> ""]
BadJson == [kind |-> "badjson", type |-> "", codeExist |-> 0, title |-> "", code |-> "", topic |-> ""]

\* the results the gate specification submits: PASSWORD_RESET results over
\* two keys and two codes, each present or missing, and results of the other
\* types (or of none) with each field present or missing
Objects ==
    { Obj("PASSWORD_RESET", ct[1], ti, co, ct[2]) :
          ct \in {<<0, "">>, <<1, "login">>}, ti \in Emails \cup {""}, co \in Codes \cup {""} }
    \cup { Obj(ty, ct[1], ti, co, ct[2]) :
          ty \in Types \ {"PASSWORD_RESET"}, ct \in {<<0, "">>, <<1, "">>, <<1, "login">>},
          ti \in {"a@x", ""}, co \in {"111111", ""} }

\* the parsed bodies a 2xx answer is drawn from in the dispatch and e-mail
\* specifications: complete and incomplete LOGIN results, negative results,
\* and PASSWORD_RESET results with and without their code and title
ReplyObjects ==
    { Obj("LOGIN", 1, "a@x", "111111", "login"),
      Obj("LOGIN", 1, "a@x", "111111", ""),
      Obj("LOGIN", 1, "", "111111", "login"),
      Obj("", 1, "a@x", "", "login"),
      Obj("OTHER", 0, "", "", ""),
      CodeExist0,
      Obj("PASSWORD_RESET", 0, "a@x", "111111", ""),
      Obj("PASSWORD_RESET", 0, "a@x", "", ""),
      Obj("PASSWORD_RESET", 1, "a@x", "111111", "login"),
      Obj("PASSWORD_RESET", 1, "", "111111", "login") }
Replies == {EmptyBody, NoStruct, BadJson, JNull, JFalsy} \cup ReplyObjects
\* callOpenAI always builds candidates[0].content.parts[0]
OpenAIReplies == Replies \ {EmptyBody, NoStruct}

\* outcome of one HTTP call: 2xx, 429, another non-2xx status, or an exception
\* (fetch rejects, or response.json() rejects)
HttpOutcomes == {"ok", "429", "status", "network"}

ErrNoKeys == "No API keys available"
ErrAllFailed == "All API keys failed"
ErrAllGoogleFailed == "All Google API keys failed"
ErrOpenAI == "OpenAI API error"

VARIABLES
    variant,     \* "gate": src/unnamed/part_001 (235-870); "inline": src/src/index.ts (1-623)
    nKeys,       \* getAvailableAPIKeys(env).length
    hasOpenAI,   \* !!env.OpenAIAPIKey
    now,         \* Date.now(), in milliseconds
    selLog,      \* the last dispatches: when each began and the index it selected
    dpc,         \* position inside callAIWithRoundRobin
    keyIndex,    \* the index getNextKeyIndex selected
    di,          \* loop variable i of tryOtherGoogleKeys
    dpass,       \* which call of tryOtherGoogleKeys is running (1 or 2)
    httpLog,     \* the HTTP calls of this dispatch, in order
    dErr,        \* message of the error callAIWithRoundRobin threw
    dResp,       \* the response it returned
    useBark,     \* env.UseBark.toLowerCase() === 'true'
    nTokens,     \* number of tokens in env.barkTokens
    pc,          \* position inside the email handler
    msgId,       \* message.headers.get("Message-ID")
    retryCount,  \* let retryCount
    extractedData, \* let extractedData
    rejected,    \* message.setReject was called
    directLog,   \* the direct callOpenAI calls of the catch block in this invocation:
                 \* the attempt number, and whether the answer got as far as break
    attempts,    \* the attempts of this invocation that have ended: whether the try
                 \* block threw, and the milliseconds the catch block then waited
    steps,       \* the kinds of step this invocation has taken, in order (a run of
                 \* steps of one kind is noted once)
    saved,       \* how the code_mails INSERT of this invocation ended ("": not run)
    barkCalled,  \* tokens whose notification request was made
    barkFailed,  \* tokens whose request failed (non-2xx or exception)
    rawMails,    \* table raw_mails: rows per message_id
    codeMails,   \* table code_mails: rows per message_id
    delivered,   \* message ids delivered so far, in order
    inserted,    \* per delivery: did it insert its raw_mails row
    loopEnd,     \* how the retry loop of this invocation ended
    nDispatch,   \* callAIWithRoundRobin calls of this invocation
    nHttp,       \* provider HTTP calls of this invocation
    nGate,       \* checkPasswordResetRepeat calls of this invocation
    nDb,         \* raw_mails / code_mails statements of this invocation
    history,     \* table password_reset_history: email -> row or NoRecord
    history0,    \* the table as this run found it
    prevExhausted, \* an earlier invocation for this message id exhausted its retries
    gateLog,     \* evaluations of checkPasswordResetRepeat so far
    lastIn,      \* argument of the last processAIResponse call
    lastOut,     \* its return value
    racers,      \* concurrent invocations of email() for one message id: where each
                 \* is, the rows its lookup saw, whether its INSERT added a row
    evals,       \* concurrent gate evaluations for one key: where each is, its
                 \* code, the row its SELECT returned, what it decided
    updatedAt,   \* column updated_at of password_reset_history, per key
    ageLog,      \* per gate evaluation: the time, and updated_at of the row it found
    keyCalls,    \* the indices of the primary keys called by HTTP so far, in order
    openaiCalls, \* the number of calls of callOpenAI so far
    googleApiKeyIndex, \* let googleApiKeyIndex (src/src/index.ts, module level)
    cursorLog,   \* the calls of getNextGoogleApiKey so far: the index of the key
                 \* returned and the invocation that called
    handlers     \* invocations of email() of the module-cursor worker in one
                 \* process: where each is, and its retryCount

gateVars == <<history, gateLog, lastIn, lastOut>>
confVars == <<variant, nKeys, hasOpenAI>>
obsVars == <<history0, selLog, prevExhausted>>
cursorVars == <<googleApiKeyIndex, cursorLog, handlers>>
concVars == <<racers, evals, updatedAt, ageLog, keyCalls, openaiCalls, cursorVars>>
dispVars == <<dpc, keyIndex, di, dpass, httpLog, dErr, dResp>>
barkConf == <<useBark, nTokens>>
storeVars == <<rawMails, codeMails>>
mailVars == <<pc, msgId, retryCount, extractedData, rejected, saved, directLog, attempts, steps,
              barkCalled, barkFailed,
              delivered, inserted, loopEnd, nDispatch, nHttp, nGate, nDb>>
vars == <<confVars, concVars, obsVars, barkConf, now, dispVars, gateVars, storeVars, mailVars>>

(* ---------------------- password_reset_history ------------------------ *)
\* SELECT code, count FROM password_reset_history WHERE email = ?
SelectHistory(hist, email) == hist[email]
\* INSERT INTO password_reset_history (email, code, count, ...) VALUES (?, ?, 1, ...)
InsertHistory(hist, email, code) == [hist EXCEPT ![email] = [code |-> code, count |-> 1]]
\* slip: the UPDATE without its WHERE clause
UpdateCount_noWhere(hist, email, newCount) ==
    [e \in DOMAIN hist |-> IF hist[e] = NoRecord THEN NoRecord
                           ELSE [hist[e] EXCEPT !.count = newCount]]
\* UPDATE password_reset_history SET count = ? ... WHERE email = ?
\* (no row for email: nothing changes)
UpdateCount(hist, email, newCount) ==
    IF hist[email] = NoRecord THEN hist ELSE [hist EXCEPT ![email].count = newCount]
\* UPDATE password_reset_history SET code = ?, count = 1 ... WHERE email = ?
UpdateCode(hist, email, code) ==
    IF hist[email] = NoRecord THEN hist ELSE [hist EXCEPT ![email] = [code |-> code, count |-> 1]]
\* DELETE FROM password_reset_history WHERE email = ?
DeleteHistory(hist, email) == [hist EXCEPT ![email] = NoRecord]

\* which statement of one gate evaluation fails: none; the SELECT throws; the
\* INSERT/UPDATE that follows it throws ("write") or resolves with success =
\* false, a value the gate never reads ("writeFail"); the DELETE of
\* clearPasswordResetHistory throws
GateFaults == {"none", "select", "write", "writeFail", "clear"}
\* the table after the INSERT/UPDATE of this evaluation ran
Written(f, hist, written) == IF f = "writeFail" THEN hist ELSE written
\* catch (error) { ...; return false; }: a statement that throws changes nothing
Caught(hist) == [ret |-> FALSE, hist |-> hist]

\* slip: the threshold compared with > instead of >=
checkPasswordResetRepeat_gt(hist, email, code, f) ==
    IF f = "select" THEN Caught(hist) ELSE
    LET existing == SelectHistory(hist, email) IN
    IF f = "write" THEN Caught(hist) ELSE
    IF existing = NoRecord
    THEN [ret |-> FALSE, hist |-> Written(f, hist, InsertHistory(hist, email, code))]
    ELSE IF existing.code = code
         THEN LET newCount == existing.count + 1 IN
              [ret |-> newCount > Threshold,
               hist |-> Written(f, hist, UpdateCount(hist, email, newCount))]
         ELSE [ret |-> FALSE, hist |-> Written(f, hist, UpdateCode(hist, email, code))]

\* checkPasswordResetRepeat: the value returned and the table afterwards
checkPasswordResetRepeat(hist, email, code, f) ==
    IF f = "select" THEN Caught(hist) ELSE
    LET existing == SelectHistory(hist, email) IN
    IF f = "write" THEN Caught(hist) ELSE
    IF existing = NoRecord
    THEN [ret |-> FALSE, hist |-> Written(f, hist, InsertHistory(hist, email, code))]
    ELSE IF existing.code = code
         THEN LET newCount == existing.count + 1 IN
              [ret |-> newCount >= Threshold,
               hist |-> Written(f, hist, UpdateCount(hist, email, newCount))]
         ELSE [ret |-> FALSE, hist |-> Written(f, hist, UpdateCode(hist, email, code))]

\* clearPasswordResetHistory(db, email): a DELETE that throws is caught and logged
clearPasswordResetHistory(hist, email, f) ==
    IF f = "clear" THEN hist ELSE DeleteHistory(hist, email)

\* slip: only the title is looked at before the gate is called
processAIResponse_titleOnly(hist, result, f) ==
    IF result.type = "PASSWORD_RESET"
    THEN IF result.title = ""
         THEN [out |-> CodeExist0, hist |-> hist, evaluated |-> FALSE, ret |-> FALSE]
         ELSE LET chk == checkPasswordResetRepeat(hist, result.title, result.code, f) IN
              IF chk.ret
              THEN [out |-> Obj("", 1, result.title, result.code, ReleaseTopic),
                    hist |-> clearPasswordResetHistory(chk.hist, result.title, f),
                    evaluated |-> TRUE, ret |-> TRUE]
              ELSE [out |-> CodeExist0, hist |-> chk.hist, evaluated |-> TRUE, ret |-> FALSE]
    ELSE [out |-> result, hist |-> hist, evaluated |-> FALSE, ret |-> FALSE]

\* slip: LOGIN results sent through the gate as well
processAIResponse_gateLogin(hist, result, f) ==
    IF result.type \in {"PASSWORD_RESET", "LOGIN"}
    THEN IF result.code = "" \/ result.title = ""
         THEN [out |-> CodeExist0, hist |-> hist, evaluated |-> FALSE, ret |-> FALSE]
         ELSE LET chk == checkPasswordResetRepeat(hist, result.title, result.code, f) IN
              IF chk.ret
              THEN [out |-> Obj("", 1, result.title, result.code, ReleaseTopic),
                    hist |-> clearPasswordResetHistory(chk.hist, result.title, f),
                    evaluated |-> TRUE, ret |-> TRUE]
              ELSE [out |-> CodeExist0, hist |-> chk.hist, evaluated |-> TRUE, ret |-> FALSE]
    ELSE [out |-> result, hist |-> hist, evaluated |-> FALSE, ret |-> FALSE]

\* slip: a suppressed PASSWORD_RESET result handed back as it came
processAIResponse_passSuppressed(hist, result, f) ==
    IF result.type = "PASSWORD_RESET"
    THEN IF result.code = "" \/ result.title = ""
         THEN [out |-> CodeExist0, hist |-> hist, evaluated |-> FALSE, ret |-> FALSE]
         ELSE LET chk == checkPasswordResetRepeat(hist, result.title, result.code, f) IN
              IF chk.ret
              THEN [out |-> Obj("", 1, result.title, result.code, ReleaseTopic),
                    hist |-> clearPasswordResetHistory(chk.hist, result.title, f),
                    evaluated |-> TRUE, ret |-> TRUE]
              ELSE [out |-> result, hist |-> chk.hist, evaluated |-> TRUE, ret |-> FALSE]
    ELSE [out |-> result, hist |-> hist, evaluated |-> FALSE, ret |-> FALSE]

\* processAIResponse: the result returned, the table afterwards, and whether
\* checkPasswordResetRepeat was called (with what it returned)
processAIResponse(hist, result, f) ==
    IF result.type = "PASSWORD_RESET"
    THEN IF result.code = "" \/ result.title = ""
         THEN [out |-> CodeExist0, hist |-> hist, evaluated |-> FALSE, ret |-> FALSE]
         ELSE LET chk == checkPasswordResetRepeat(hist, result.title, result.code, f) IN
              IF chk.ret
              THEN [out |-> Obj("", 1, result.title, result.code, ReleaseTopic),
                    hist |-> clearPasswordResetHistory(chk.hist, result.title, f),
                    evaluated |-> TRUE, ret |-> TRUE]
              ELSE [out |-> CodeExist0, hist |-> chk.hist, evaluated |-> TRUE, ret |-> FALSE]
    ELSE [out |-> result, hist |-> hist, evaluated |-> FALSE, ret |-> FALSE]

\* the log of gate evaluations: the key and code submitted, what
\* checkPasswordResetRepeat returned, and the table before the call and after
\* processAIResponse returned
LogGate(log, hist, result, r, f) ==
    IF r.evaluated
    THEN Append(log, [email |-> result.title, code |-> result.code, released |-> r.ret,
                      before |-> hist, after |-> r.hist, fault |-> f])
    ELSE log

(* ------------------------------ dispatch ------------------------------ *)
\* one HTTP call: the provider, the key index, the outcome and the 2xx body
Call(p, i, o, reply) ==
    [prov |-> p, idx |-> i, ok |-> (o = "ok"), body |-> IF o = "ok" THEN reply ELSE Nothing]
Ctl(p, i, pass, err) == [pc |-> p, i |-> i, pass |-> pass, err |-> err]

\* apiKeys.length === 0 && !env.OpenAIAPIKey
NoKeysAvailable(n, openai) == n = 0 /\ ~openai

\* slip: the clock divided by the wrong unit
getNextKeyIndex_wrongUnit(ms, totalKeys) == (ms \div 1000) % totalKeys
\* minutesSinceEpoch = Math.floor(Date.now() / (1000 * 60));
\* return minutesSinceEpoch % totalKeys
getNextKeyIndex(ms, totalKeys) == (ms \div MsPerMinute) % totalKeys

\* for (i...; i < apiKeys.length; i++) { if (i === excludeIndex) continue; ... }:
\* the next index the loop calls from i on, or n when the loop is over
NextOther(i, excludeIndex, n) ==
    LET rest == { j \in i..(n - 1) : j # excludeIndex } IN
    IF rest = {} THEN n ELSE CHOOSE j \in rest : \A m \in rest : j <= m

\* slip: the OpenAI fallback left out
AfterGoogleGate_noFallback(openai) == Ctl("threw", 0, 0, ErrAllFailed)

\* part_001 callAIWithRoundRobin, after tryOtherGoogleKeys returned null
\* (or with no Google key): OpenAI if configured, else 'All API keys failed'
AfterGoogleGate(openai) ==
    IF openai THEN Ctl("openai", 0, 0, "") ELSE Ctl("threw", 0, 0, ErrAllFailed)

\* part_001 callAIWithRoundRobin, catch block of the selected key's call:
\* tryOtherGoogleKeys(prompt, apiKeys, keyIndex) starts
OnSelectedFailureGate(o, k, n, openai) ==
    LET j == NextOther(0, k, n) IN
    IF j < n THEN Ctl("others", j, 1, "") ELSE AfterGoogleGate(openai)

\* part_001 tryOtherGoogleKeys, catch block of key i's call: continue
OnOtherFailureGate(i, k, n, openai) ==
    LET j == NextOther(i + 1, k, n) IN
    IF j < n THEN Ctl("others", j, 1, "") ELSE AfterGoogleGate(openai)

\* part_001 tryOtherGoogleKeys returned what key i answered: `if (result)
\* return result` returns it when truthy, else the code goes on as after null
OnOtherAnswerGate(reply, openai) ==
    IF reply = EmptyBody THEN AfterGoogleGate(openai) ELSE Ctl("returned", 0, 0, "")

\* index.ts callAIWithRoundRobin: the catch block's tryOtherGoogleKeys returned
\* null: throw new Error('All Google API keys failed') leaves the function
AfterCatchInline(k, n) == Ctl("threw", 0, 0, ErrAllGoogleFailed)

\* index.ts callAIWithRoundRobin, catch (error): tryOtherGoogleKeys starts (pass 2)
EnterCatchInline(k, n) ==
    LET j == NextOther(0, k, n) IN
    IF j < n THEN Ctl("others", j, 2, "") ELSE AfterCatchInline(k, n)

\* index.ts callAIWithRoundRobin, the selected key's call did not return 2xx:
\* on 429 tryOtherGoogleKeys runs inside the try block (pass 1), and its null is
\* followed by a throw that the same catch block receives; any other failure
\* goes to the catch block at once
OnSelectedFailureInline(o, k, n) ==
    IF o = "429"
    THEN LET j == NextOther(0, k, n) IN
         IF j < n THEN Ctl("others", j, 1, "") ELSE EnterCatchInline(k, n)
    ELSE EnterCatchInline(k, n)

\* index.ts tryOtherGoogleKeys, key i failed (429, other status or exception): continue
OnOtherFailureInline(i, pass, k, n) ==
    LET j == NextOther(i + 1, k, n) IN
    IF j < n THEN Ctl("others", j, pass, "")
    ELSE IF pass = 1 THEN EnterCatchInline(k, n) ELSE AfterCatchInline(k, n)

\* index.ts tryOtherGoogleKeys returned what key i answered: `if (result)
\* return result` returns it when truthy; else pass 1 throws into the catch
\* block and pass 2 falls through to the final throw
OnOtherAnswerInline(reply, pass, k, n) ==
    IF reply # EmptyBody THEN Ctl("returned", 0, 0, "")
    ELSE IF pass = 1 THEN EnterCatchInline(k, n) ELSE AfterCatchInline(k, n)

\* callAIWithRoundRobin up to its first await
Entry(v, n, openai, ms) ==
    IF NoKeysAvailable(n, openai) THEN Ctl("threw", 0, 0, ErrNoKeys)
    ELSE IF n > 0 THEN Ctl("selected", getNextKeyIndex(ms, n), 0, "")
    ELSE Ctl("openai", 0, 0, "")

SetCtl(c) ==
    /\ dpc' = c.pc
    /\ di' = c.i
    /\ dpass' = c.pass
    /\ dErr' = c.err

\* callAIWithRoundRobin(prompt, env) is called
DispatchEnter ==
    LET c == Entry(variant, nKeys, hasOpenAI, now) IN
    /\ dpc' = c.pc
    /\ keyIndex' = c.i
    /\ di' = 0
    /\ dpass' = 0
    /\ dErr' = c.err
    /\ httpLog' = <<>>
    /\ dResp' = Nothing

\* the HTTP call with apiKeys[keyIndex] completes
CallSelected(o, reply) ==
    /\ dpc = "selected"
    /\ httpLog' = Append(httpLog, Call("google", keyIndex, o, reply))
    /\ IF o = "ok"
       THEN /\ dpc' = "returned"
            /\ dResp' = reply
            /\ UNCHANGED <<di, dpass, dErr>>
       ELSE /\ SetCtl(IF variant = "gate"
                      THEN OnSelectedFailureGate(o, keyIndex, nKeys, hasOpenAI)
                      ELSE OnSelectedFailureInline(o, keyIndex, nKeys))
            /\ dResp' = Nothing
    /\ UNCHANGED keyIndex

\* inside tryOtherGoogleKeys, the HTTP call with apiKeys[i] completes
CallOther(o, reply) ==
    /\ dpc = "others"
    /\ httpLog' = Append(httpLog, Call("google", di, o, reply))
    /\ LET c == IF o = "ok"
                THEN IF variant = "gate"
                     THEN OnOtherAnswerGate(reply, hasOpenAI)
                     ELSE OnOtherAnswerInline(reply, dpass, keyIndex, nKeys)
                ELSE IF variant = "gate"
                     THEN OnOtherFailureGate(di, keyIndex, nKeys, hasOpenAI)
                     ELSE OnOtherFailureInline(di, dpass, keyIndex, nKeys) IN
       IF c.pc = "returned"
       THEN /\ dpc' = "returned"
            /\ dResp' = reply
            /\ UNCHANGED <<di, dpass, dErr>>
       ELSE /\ SetCtl(c)
            /\ dResp' = Nothing
    /\ UNCHANGED keyIndex

\* callOpenAI(prompt, env.OpenAIAPIKey) inside callAIWithRoundRobin completes
CallOpenAI(o, reply) ==
    /\ dpc = "openai"
    /\ httpLog' = Append(httpLog, Call("openai", 0, o, reply))
    /\ IF o = "ok"
       THEN /\ dpc' = "returned"
            /\ dResp' = reply
            /\ dErr' = ""
       ELSE /\ dpc' = "threw"
            /\ dErr' = ErrOpenAI
            /\ dResp' = Nothing
    /\ UNCHANGED <<keyIndex, di, dpass>>

\* the clock advances. Only DispatchEnter reads it, so it is enough to let it
\* move between dispatches
Tick ==
    /\ now < MaxMinute * MsPerMinute
    /\ dpc \in {"idle", "returned", "threw"}
    /\ now' = now + ClockStep

GateVarsInit ==
    /\ history = [e \in Emails |-> NoRecord]
    /\ history0 = history
    /\ gateLog = <<>>
    /\ lastIn = Nothing
    /\ lastOut = Nothing

MsgIds == {"m1"}

\* concurrent invocations of email(), and concurrent gate evaluations
Racers == 1..MaxRacers
Evaluators == 1..MaxEvaluators
\* invocations of the module-cursor worker running in one process
CursorMails == 1..MaxCursorMails
IdleHandler == [pc |-> "idle", retryCount |-> 0]
IdleRacer == [pc |-> "idle", seen |-> 0, inserted |-> FALSE, calls |-> 0]
IdleEval == [pc |-> "idle", code |-> "", existing |-> NoRecord, ret |-> FALSE]

ConcVarsInit ==
    /\ racers = [p \in Racers |-> IdleRacer]
    /\ evals = [p \in Evaluators |-> IdleEval]
    /\ updatedAt = [e \in Emails |-> 0]
    /\ ageLog = <<>>
    /\ keyCalls = <<>>
    /\ openaiCalls = 0
    /\ googleApiKeyIndex = 0
    /\ cursorLog = <<>>
    /\ handlers = [p \in CursorMails |-> IdleHandler]

MailVarsInit ==
    /\ ConcVarsInit
    /\ pc = "idle"
    /\ msgId = ""
    /\ retryCount = 0
    /\ extractedData = Nothing
    /\ rejected = FALSE
    /\ saved = ""
    /\ directLog = <<>>
    /\ attempts = <<>>
    /\ steps = <<>>
    /\ prevExhausted = FALSE
    /\ barkCalled = {}
    /\ barkFailed = {}
    /\ rawMails = [m \in MsgIds |-> 0]
    /\ codeMails = [m \in MsgIds |-> 0]
    /\ delivered = <<>>
    /\ inserted = <<>>
    /\ loopEnd = ""
    /\ nDispatch = 0
    /\ nHttp = 0
    /\ nGate = 0
    /\ nDb = 0

DispVarsInit ==
    /\ dpc = "idle"
    /\ keyIndex = 0
    /\ di = 0
    /\ dpass = 0
    /\ httpLog = <<>>
    /\ dErr = ""
    /\ dResp = Nothing
    /\ selLog = <<>>

(* ----------------------- dispatch specification ----------------------- *)
DispatchInit ==
    /\ variant \in {"gate", "inline"}
    /\ nKeys \in 0..MaxKeys
    /\ hasOpenAI \in BOOLEAN
    /\ now = 0
    /\ useBark = FALSE
    /\ nTokens = 0
    /\ DispVarsInit
    /\ GateVarsInit
    /\ MailVarsInit

\* what a dispatch step leaves alone when no e-mail is being handled
DispatchFrame == UNCHANGED <<confVars, concVars, obsVars, barkConf, now, gateVars, storeVars, mailVars>>

\* callAIWithRoundRobin is called on its own, no e-mail being handled
Dispatch ==
    /\ pc = "idle"
    /\ dpc \in {"idle", "returned", "threw"}
    /\ DispatchEnter
    /\ DispatchFrame

DispatchNext ==
    \/ Dispatch
    \/ \E o \in HttpOutcomes, reply \in Replies :
          CallSelected(o, reply) /\ DispatchFrame
    \/ \E o \in HttpOutcomes, reply \in Replies :
          CallOther(o, reply) /\ DispatchFrame
    \/ \E o \in HttpOutcomes, reply \in OpenAIReplies :
          CallOpenAI(o, reply) /\ DispatchFrame
    \/ Tick /\ UNCHANGED <<confVars, concVars, obsVars, barkConf, dispVars, gateVars, storeVars, mailVars>>

SpecDispatch == DispatchInit /\ [][DispatchNext]_vars

(* ------------------------- clock specification ----------------------- *)
\* dispatches one after another while the clock advances, each Google call
\* failing or answering; which key goes first is all this specification records
ClockInit ==
    /\ variant \in {"gate", "inline"}
    /\ nKeys \in 1..MaxKeys
    /\ hasOpenAI = FALSE
    /\ now = 0
    /\ useBark = FALSE
    /\ nTokens = 0
    /\ DispVarsInit
    /\ GateVarsInit
    /\ MailVarsInit

KeepLast(log) == IF Len(log) > MaxSelections THEN Tail(log) ELSE log

\* callAIWithRoundRobin is called; the log notes the time, the index that
\* getNextKeyIndex returned and how the dispatch before this one ended
ClockDispatch ==
    /\ pc = "idle"
    /\ dpc \in {"idle", "returned", "threw"}
    /\ DispatchEnter
    /\ selLog' = KeepLast(Append(selLog, [at |-> now, idx |-> keyIndex', after |-> dpc]))
    /\ UNCHANGED <<confVars, concVars, history0, prevExhausted, barkConf, now, gateVars, storeVars, mailVars>>

ClockNext ==
    \/ ClockDispatch
    \/ \E o \in HttpOutcomes : CallSelected(o, CodeExist0) /\ DispatchFrame
    \/ \E o \in HttpOutcomes : CallOther(o, CodeExist0) /\ DispatchFrame
    \/ Tick /\ UNCHANGED <<confVars, concVars, obsVars, barkConf, dispVars, gateVars, storeVars, mailVars>>

SpecClock == ClockInit /\ [][ClockNext]_vars

(* --------------------------- e-mail handler --------------------------- *)
\* slip: the loop condition that never sees a result
Truthy_never(d) == FALSE
\* a JS value that passes `if (extractedData)` / fails `!extractedData`
Truthy(d) == d.kind = "obj"

\* codeExist === 1 && (!title || !code || !topic)
MissingFields(d) == d.codeExist = 1 /\ (d.title = "" \/ d.code = "" \/ d.topic = "")

\* what handling one provider answer yields: the new extractedData, whether an
\* exception left the block, the gate table, and whether the gate was evaluated
Handled(ed, threw, hist, gate, ret) ==
    [ed |-> ed, threw |-> threw, hist |-> hist, gate |-> gate, ret |-> ret]

\* part_001, main path of one attempt: structure check, JSON.parse,
\* processAIResponse, then the required-fields check
MainGate(resp, cur, hist, f) ==
    CASE resp.kind \in {"emptybody", "nostruct"} -> Handled(cur, TRUE, hist, FALSE, FALSE)
      [] resp.kind = "badjson" -> Handled(cur, TRUE, hist, FALSE, FALSE)
      \* extractedData = null, then result.type throws a TypeError
      [] resp.kind = "null" -> Handled(Nothing, TRUE, hist, FALSE, FALSE)
      \* 0, false or "": processAIResponse returns it, nothing throws
      [] resp.kind = "falsy" -> Handled(JFalsy, FALSE, hist, FALSE, FALSE)
      [] OTHER ->
           LET r == processAIResponse(hist, resp, f) IN
           IF MissingFields(r.out)
           THEN Handled(Nothing, TRUE, r.hist, r.evaluated, r.ret)
           ELSE Handled(r.out, FALSE, r.hist, r.evaluated, r.ret)

\* index.ts, main path of one attempt: structure check, JSON.parse, then the
\* required-fields check
MainInline(resp, cur, hist) ==
    CASE resp.kind \in {"emptybody", "nostruct"} -> Handled(cur, TRUE, hist, FALSE, FALSE)
      [] resp.kind = "badjson" -> Handled(cur, TRUE, hist, FALSE, FALSE)
      \* extractedData = null, then extractedData.codeExist throws a TypeError
      [] resp.kind = "null" -> Handled(Nothing, TRUE, hist, FALSE, FALSE)
      [] resp.kind = "falsy" -> Handled(JFalsy, FALSE, hist, FALSE, FALSE)
      [] OTHER ->
           IF MissingFields(resp)
           THEN Handled(Nothing, TRUE, hist, FALSE, FALSE)
           ELSE Handled(resp, FALSE, hist, FALSE, FALSE)

\* part_001, the direct callOpenAI of attempt 0 answered 2xx: JSON.parse,
\* processAIResponse, break; an exception is caught by catch (openaiError)
DirectGate(resp, cur, hist, f) ==
    CASE resp.kind = "badjson" -> Handled(cur, TRUE, hist, FALSE, FALSE)
      [] resp.kind = "null" -> Handled(Nothing, TRUE, hist, FALSE, FALSE)
      [] resp.kind = "falsy" -> Handled(JFalsy, FALSE, hist, FALSE, FALSE)
      [] OTHER ->
           LET r == processAIResponse(hist, resp, f) IN
           Handled(r.out, FALSE, r.hist, r.evaluated, r.ret)

\* index.ts, the direct callOpenAI of attempt 0 answered 2xx: JSON.parse, break
DirectInline(resp, cur, hist) ==
    CASE resp.kind = "badjson" -> Handled(cur, TRUE, hist, FALSE, FALSE)
      [] resp.kind = "null" -> Handled(Nothing, FALSE, hist, FALSE, FALSE)
      [] resp.kind = "falsy" -> Handled(JFalsy, FALSE, hist, FALSE, FALSE)
      [] OTHER -> Handled(resp, FALSE, hist, FALSE, FALSE)

\* log with a step of the given kind noted at its end
Step(log, kind) == IF log # <<>> /\ log[Len(log)] = kind THEN log ELSE Append(log, kind)

\* slip: the no-credentials return left out
EmailNoKeys_never(n, openai) == FALSE
\* email(): availableGoogleKeys.length === 0 && !hasOpenAI
EmailNoKeys(n, openai) == n = 0 /\ ~openai

\* slip: an INSERT that adds no second row for a message id
InsertRaw_unique(raw, m) == IF raw[m] > 0 THEN raw ELSE [raw EXCEPT ![m] = @ + 1]
\* INSERT INTO raw_mails ... succeeded: one more row for message_id; nothing
\* in the table keeps two rows from having the same message_id
InsertRaw(raw, m) == [raw EXCEPT ![m] = @ + 1]

\* slip: the duplicate lookup never finds the row
Existing_never(raw, m) == FALSE
\* if (existing): the SELECT on raw_mails returned a row for message_id
Existing(raw, m) == raw[m] > 0

\* slip: no try/catch around the body of email()
OuterCatch_none(step) == "escaped"
\* catch (error) around the body of email(): an exception thrown by the
\* statement `step` outside the AI part is logged and email() returns
OuterCatch(step) == "done"
\* catch (e) around the AI part (retry loop, code_mails insert, Bark): an
\* exception thrown there is logged and email() returns
InnerCatch(step) == "done"

\* slip: the attempt counter left as it is
BottomCount_stuck(ed, rc) == rc
\* if (!extractedData) retryCount++
BottomCount(ed, rc) == IF Truthy(ed) THEN rc ELSE rc + 1

\* setTimeout(resolve, 1000 * (retryCount + 1))
BackoffMs(rc) == BackoffBase * (rc + 1)

\* slip: a wait after every failed attempt, the last one included
AfterDirect_always(rc) == "backoff"

\* the catch block after the direct-call part: wait unless this was the last attempt
AfterDirect(rc) == IF rc < maxRetries - 1 THEN "backoff" ELSE "loop"

\* a catch block that would try the secondary provider in every attempt
CatchPc_everyAttempt(rc, openai) == IF openai THEN "direct" ELSE AfterDirect(rc)

\* catch (error) of one attempt: if (retryCount === 0 && env.OpenAIAPIKey)
CatchPc(rc, openai) == IF rc = 0 /\ openai THEN "direct" ELSE AfterDirect(rc)

\* slip: the notifications sent without the result insert before them
AfterLoopPc_notifyFirst(ed) == IF Truthy(ed) /\ ed.codeExist = 1 THEN "bark" ELSE "done"

\* after the loop: if (extractedData) { if (extractedData.codeExist === 1) ...
AfterLoopPc(ed) == IF Truthy(ed) /\ ed.codeExist = 1 THEN "resultInsert" ELSE "done"
EndOf(ed) == IF Truthy(ed) THEN "extracted" ELSE "failed"

\* the loop ended without a result after maxRetries attempts
\* ("Max retries reached. Unable to get valid AI response.")
Exhausted(end, atts) == end = "failed" /\ Len(atts) = maxRetries

\* the attempt's catch block is entered with extractedData = ed
EnterCatch(ed) ==
    LET next == CatchPc(retryCount, hasOpenAI) IN
    /\ pc' = next
    /\ retryCount' = IF next = "loop" THEN BottomCount(ed, retryCount) ELSE retryCount

ResetDispatch ==
    /\ dpc' = "idle"
    /\ keyIndex' = 0
    /\ di' = 0
    /\ dpass' = 0
    /\ httpLog' = IF pc' = "direct" THEN httpLog ELSE <<>>
    /\ dErr' = ""
    /\ dResp' = Nothing

\* email(message, env, ctx) is called: up to the duplicate lookup
Deliver(m) ==
    /\ pc \in {"idle", "done"}
    /\ dpc \in {"idle", "returned", "threw"}
    /\ Len(delivered) < MaxDeliveries
    /\ delivered' = Append(delivered, m)
    /\ inserted' = Append(inserted, FALSE)
    /\ msgId' = m
    /\ pc' = IF EmailNoKeys(nKeys, hasOpenAI) THEN "done" ELSE "dedupe"
    /\ retryCount' = 0
    /\ extractedData' = Nothing
    /\ rejected' = FALSE
    /\ saved' = ""
    /\ directLog' = <<>>
    /\ attempts' = <<>>
    /\ steps' = <<>>
    /\ barkCalled' = {}
    /\ barkFailed' = {}
    /\ loopEnd' = ""
    /\ nDispatch' = 0
    /\ nHttp' = 0
    /\ nGate' = 0
    /\ nDb' = 0
    /\ prevExhausted' = (prevExhausted \/ Exhausted(loopEnd, attempts))
    /\ UNCHANGED <<confVars, concVars, history0, selLog, barkConf, now, dispVars, gateVars, storeVars>>

\* callAIWithRoundRobin called on its own with the empty pool, the one
\* configuration email() never passes to it (it returns first)
DispatchEmptyPool ==
    /\ pc \in {"idle", "done"}
    /\ NoKeysAvailable(nKeys, hasOpenAI)
    /\ dpc \in {"idle", "returned", "threw"}
    /\ DispatchEnter
    /\ DispatchFrame

\* SELECT 1 FROM raw_mails WHERE message_id = ? answers or throws
DedupeCheck(o) ==
    /\ pc = "dedupe"
    /\ nDb' = nDb + 1
    /\ steps' = Step(steps, "dedupe")
    /\ pc' = IF o = "throw" THEN OuterCatch("dedupe")
             ELSE IF Existing(rawMails, msgId) THEN "done" ELSE "rawInsert"
    /\ UNCHANGED <<confVars, concVars, obsVars, barkConf, now, dispVars, gateVars, storeVars, msgId, retryCount,
                   extractedData, rejected, saved, directLog, attempts, barkCalled, barkFailed, delivered, inserted,
                   loopEnd, nDispatch, nHttp, nGate>>

\* INSERT INTO raw_mails ... succeeds, reports success = false, or throws
RawInsert(o) ==
    /\ pc = "rawInsert"
    /\ nDb' = nDb + 1
    /\ rawMails' = IF o = "ok" THEN InsertRaw(rawMails, msgId) ELSE rawMails
    /\ inserted' = IF o = "ok" THEN [inserted EXCEPT ![Len(inserted)] = TRUE] ELSE inserted
    /\ rejected' = (o = "fail")
    /\ saved' = saved
    /\ directLog' = directLog
    /\ attempts' = attempts
    /\ steps' = Step(steps, "rawInsert")
    /\ pc' = IF o = "ok" THEN "loop"
             ELSE IF o = "throw" THEN OuterCatch("rawInsert") ELSE "done"
    /\ UNCHANGED <<confVars, concVars, obsVars, barkConf, now, dispVars, gateVars, codeMails, msgId, retryCount,
                   extractedData, barkCalled, barkFailed, delivered, loopEnd, nDispatch,
                   nHttp, nGate>>

\* while (retryCount < maxRetries && !extractedData): callAIWithRoundRobin is called
CallAI ==
    /\ pc = "loop"
    /\ retryCount < maxRetries /\ ~Truthy(extractedData)
    /\ pc' = "ai"
    /\ nDispatch' = nDispatch + 1
    /\ DispatchEnter
    /\ UNCHANGED <<confVars, concVars, obsVars, barkConf, now, gateVars, storeVars, msgId, retryCount,
                   extractedData, rejected, saved, directLog, attempts, steps, barkCalled, barkFailed, delivered, inserted,
                   loopEnd, nHttp, nGate, nDb>>

\* one HTTP call of the running dispatch completes: what the handler sees of it
MailFrameCore ==
    /\ pc = "ai"
    /\ nHttp' = nHttp + 1
    /\ steps' = Step(steps, "provider")
    /\ UNCHANGED <<confVars, obsVars, barkConf, now, gateVars, storeVars, pc, msgId, retryCount,
                   extractedData, rejected, saved, directLog, attempts, barkCalled, barkFailed, delivered, inserted,
                   loopEnd, nDispatch, nGate, nDb>>

\* one HTTP call of the running dispatch completes
MailFrame == MailFrameCore /\ UNCHANGED concVars

\* callAIWithRoundRobin returned: the rest of the try block of this attempt
AIReturned(f) ==
    /\ pc = "ai" /\ dpc = "returned"
    /\ LET r == IF variant = "gate" THEN MainGate(dResp, extractedData, history, f)
                ELSE MainInline(dResp, extractedData, history) IN
       /\ history' = r.hist
       /\ gateLog' = IF r.gate
                     THEN LogGate(gateLog, history, dResp, [evaluated |-> TRUE, ret |-> r.ret, hist |-> r.hist], f)
                     ELSE gateLog
       /\ nGate' = IF r.gate THEN nGate + 1 ELSE nGate
       /\ extractedData' = r.ed
       /\ steps' = IF r.gate THEN Step(steps, "gate") ELSE steps
       /\ attempts' = Append(attempts, [threw |-> r.threw, waited |-> 0])
       /\ IF r.threw
          THEN EnterCatch(r.ed)
          ELSE /\ pc' = "loop"
               /\ retryCount' = BottomCount(r.ed, retryCount)
    /\ ResetDispatch
    /\ UNCHANGED <<confVars, concVars, obsVars, barkConf, now, lastIn, lastOut, storeVars, msgId, rejected, saved, directLog,
                   barkCalled, barkFailed, delivered, inserted, loopEnd, nDispatch, nHttp,
                   nDb>>

\* callAIWithRoundRobin threw: catch (error) of this attempt
AIThrew ==
    /\ pc = "ai" /\ dpc = "threw"
    /\ EnterCatch(extractedData)
    /\ attempts' = Append(attempts, [threw |-> TRUE, waited |-> 0])
    /\ ResetDispatch
    /\ UNCHANGED <<confVars, concVars, obsVars, barkConf, now, gateVars, storeVars, msgId, extractedData,
                   rejected, saved, directLog, steps, barkCalled, barkFailed, delivered, inserted, loopEnd,
                   nDispatch, nHttp, nGate, nDb>>

\* attempt 0, inside catch (error): callOpenAI(aiPrompt, env.OpenAIAPIKey)
\* completes. A failed call throws into catch (openaiError)
DirectOpenAICore(o, reply) ==
    /\ pc = "direct"
    /\ nHttp' = nHttp + 1
    /\ steps' = Step(steps, "provider")
    /\ httpLog' = <<>>
    /\ directLog' = Append(directLog, [attempt |-> retryCount, accepted |-> FALSE])
    /\ IF o = "ok"
       THEN /\ pc' = "directAnswer"
            /\ dResp' = reply
       ELSE /\ pc' = AfterDirect(retryCount)
            /\ dResp' = Nothing
    /\ UNCHANGED <<confVars, obsVars, barkConf, now, dpc, keyIndex, di, dpass, dErr, gateVars,
                   storeVars, msgId, retryCount, extractedData, rejected, saved, attempts,
                   barkCalled, barkFailed, delivered, inserted, loopEnd, nDispatch, nGate, nDb>>

DirectOpenAI(o, reply) == DirectOpenAICore(o, reply) /\ UNCHANGED concVars

\* the answer of the direct call is handled: the rest of the inner try block
DirectAnswered(f) ==
    /\ pc = "directAnswer"
    /\ LET r == IF variant = "gate" THEN DirectGate(dResp, extractedData, history, f)
                ELSE DirectInline(dResp, extractedData, history) IN
       /\ history' = r.hist
       /\ gateLog' = IF r.gate
                     THEN LogGate(gateLog, history, dResp, [evaluated |-> TRUE, ret |-> r.ret, hist |-> r.hist], f)
                     ELSE gateLog
       /\ nGate' = IF r.gate THEN nGate + 1 ELSE nGate
       /\ extractedData' = r.ed
       /\ steps' = IF r.gate THEN Step(steps, "gate") ELSE steps
       /\ directLog' = [directLog EXCEPT ![Len(directLog)].accepted = ~r.threw]
       /\ IF r.threw
          THEN /\ pc' = AfterDirect(retryCount)
               /\ loopEnd' = loopEnd
          ELSE \* break
               /\ pc' = AfterLoopPc(r.ed)
               /\ loopEnd' = EndOf(r.ed)
    /\ dResp' = Nothing
    /\ UNCHANGED <<confVars, concVars, obsVars, barkConf, now, dpc, keyIndex, di, dpass, httpLog, dErr,
                   lastIn, lastOut, storeVars, msgId, retryCount, rejected, saved, attempts,
                   barkCalled, barkFailed, delivered, inserted, nDispatch, nHttp, nDb>>

\* setTimeout(resolve, 1000 * (retryCount + 1)) fires; then if (!extractedData) retryCount++
Backoff ==
    /\ pc = "backoff"
    /\ attempts' = [attempts EXCEPT ![Len(attempts)].waited = BackoffMs(retryCount)]
    /\ retryCount' = BottomCount(extractedData, retryCount)
    /\ pc' = "loop"
    /\ UNCHANGED <<confVars, concVars, obsVars, barkConf, now, dispVars, gateVars, storeVars, msgId,
                   extractedData, rejected, saved, directLog, steps, barkCalled, barkFailed, delivered, inserted,
                   loopEnd, nDispatch, nHttp, nGate, nDb>>

\* the while condition is false: the code after the loop, up to its first await
LoopExit ==
    /\ pc = "loop"
    /\ ~(retryCount < maxRetries /\ ~Truthy(extractedData))
    /\ loopEnd' = EndOf(extractedData)
    /\ pc' = AfterLoopPc(extractedData)
    /\ UNCHANGED <<confVars, concVars, obsVars, barkConf, now, dispVars, gateVars, storeVars, msgId, retryCount,
                   extractedData, rejected, saved, directLog, attempts, steps, barkCalled, barkFailed, delivered, inserted,
                   nDispatch, nHttp, nGate, nDb>>

\* INSERT INTO code_mails ... succeeds, reports success = false, or throws
ResultInsert(o) ==
    /\ pc = "resultInsert"
    /\ nDb' = nDb + 1
    /\ saved' = o
    /\ directLog' = directLog
    /\ attempts' = attempts
    /\ steps' = Step(steps, "resultInsert")
    /\ codeMails' = IF o = "ok" THEN [codeMails EXCEPT ![msgId] = @ + 1] ELSE codeMails
    /\ pc' = IF o = "throw" THEN InnerCatch("resultInsert")
             ELSE IF useBark /\ nTokens > 0 THEN "bark" ELSE "done"
    /\ UNCHANGED <<confVars, concVars, obsVars, barkConf, now, dispVars, gateVars, rawMails, msgId, retryCount,
                   extractedData, rejected, barkCalled, barkFailed, delivered, inserted,
                   loopEnd, nDispatch, nHttp, nGate>>

\* slip: a failed request ends the wait for the others
BarkNextPc_failFast(called, n, ok) ==
    IF ~ok \/ called = 1..n THEN "done" ELSE "bark"
\* await Promise.allSettled(barkPromises): the handler goes on when every
\* request has settled, whether it succeeded (ok) or not
BarkNextPc(called, n, ok) == IF called = 1..n THEN "done" ELSE "bark"

\* the Bark request for token t is made and settles; Promise.allSettled
\* resolves when the last one has
BarkCall(t, ok) ==
    /\ pc = "bark"
    /\ t \in (1..nTokens) \ barkCalled
    /\ barkCalled' = barkCalled \cup {t}
    /\ steps' = Step(steps, "bark")
    /\ barkFailed' = IF ok THEN barkFailed ELSE barkFailed \cup {t}
    /\ pc' = BarkNextPc(barkCalled', nTokens, ok)
    /\ UNCHANGED <<confVars, concVars, obsVars, barkConf, now, dispVars, gateVars, storeVars, msgId, retryCount,
                   extractedData, rejected, saved, directLog, attempts, delivered, inserted, loopEnd, nDispatch, nHttp,
                   nGate, nDb>>

(* ------------------------ e-mail specification ------------------------ *)
\* the rows earlier e-mails can have left for a@x in password_reset_history:
\* none, a code seen once or twice, a code seen three times whose DELETE
\* failed, and another code seen twice
StoredRecords ==
    {NoRecord} \cup { [code |-> "111111", count |-> c] : c \in 1..Threshold }
               \cup { [code |-> "222222", count |-> Threshold - 1] }

MailGateVarsInit ==
    /\ history \in { [e \in Emails |-> IF e = "a@x" THEN r ELSE NoRecord] : r \in StoredRecords }
    /\ history0 = history
    /\ gateLog = <<>>
    /\ lastIn = Nothing
    /\ lastOut = Nothing

MailInit(v) ==
    /\ variant = v
    /\ nKeys \in 0..MaxMailKeys
    /\ hasOpenAI \in BOOLEAN
    /\ useBark \in BOOLEAN
    /\ nTokens = MaxTokens
    /\ now = 0
    /\ DispVarsInit
    /\ MailGateVarsInit
    /\ MailVarsInit

\* the worker of src/unnamed/part_001 (lines 235-870)
Init == MailInit("gate")
\* the worker of src/src/index.ts (lines 1-623)
InitInline == MailInit("inline")

Next ==
    \/ \E m \in MsgIds : Deliver(m)
    \/ \E o \in {"ok", "throw"} : DedupeCheck(o)
    \/ \E o \in {"ok", "fail", "throw"} : RawInsert(o)
    \/ CallAI
    \/ \E o \in HttpOutcomes, reply \in Replies : CallSelected(o, reply) /\ MailFrame
    \/ \E o \in HttpOutcomes, reply \in Replies : CallOther(o, reply) /\ MailFrame
    \/ \E o \in HttpOutcomes, reply \in OpenAIReplies : CallOpenAI(o, reply) /\ MailFrame
    \/ \E f \in GateFaults : AIReturned(f)
    \/ AIThrew
    \/ \E o \in HttpOutcomes, reply \in OpenAIReplies : DirectOpenAI(o, reply)
    \/ \E f \in GateFaults : DirectAnswered(f)
    \/ Backoff
    \/ LoopExit
    \/ \E o \in {"ok", "fail", "throw"} : ResultInsert(o)
    \/ \E t \in 1..MaxTokens, ok \in BOOLEAN : BarkCall(t, ok)
    \/ DispatchEmptyPool

Spec == Init /\ [][Next]_vars
SpecInline == InitInline /\ [][Next]_vars

(* --------------------- gate specification (sequential) ---------------- *)
GateInit ==
    /\ variant = "gate"
    /\ nKeys = 1
    /\ hasOpenAI = FALSE
    /\ now = 0
    /\ useBark = FALSE
    /\ nTokens = 0
    /\ DispVarsInit
    /\ GateVarsInit
    /\ MailVarsInit

\* one call processAIResponse(db, result), run to completion, no statement failing
Evaluate(result) ==
    /\ Len(gateLog) < MaxEvals
    /\ LET r == processAIResponse(history, result, "none") IN
       /\ history' = r.hist
       /\ gateLog' = LogGate(gateLog, history, result, r, "none")
       /\ lastIn' = result
       /\ lastOut' = r.out
    /\ UNCHANGED <<confVars, concVars, obsVars, barkConf, now, dispVars, storeVars, mailVars>>

GateNext == \E result \in Objects : Evaluate(result)

SpecGate == GateInit /\ [][GateNext]_vars

(* ========================= properties: gate =========================== *)
\* the positions of gateLog that evaluated key e
EvalsOf(e) == { p \in 1..Len(gateLog) : gateLog[p].email = e }
\* the evaluation of the same key before position p (0: none)
PrevEval(p) ==
    LET before == { q \in EvalsOf(gateLog[p].email) : q < p } IN
    IF before = {} THEN 0 ELSE CHOOSE q \in before : \A m \in before : m <= q
\* how many submissions of the same code for the same key end at position p,
\* one directly after the other, none of the earlier ones released
RECURSIVE Streak(_)
Streak(p) ==
    LET q == PrevEval(p) IN
    IF q # 0 /\ gateLog[q].code = gateLog[p].code /\ ~gateLog[q].released
    THEN Streak(q) + 1
    ELSE 1

\* C1: evaluations run one after another, no storage failure: the 1st and the
\* 2nd consecutive submission of a code for a key return Suppress and the 3rd
\* returns Release; a submission with a code other than the recorded one sets
\* the record to {that code, count 1} and returns Suppress, whatever the count.
C1_GateThreshold ==
    \A p \in 1..Len(gateLog) :
        LET ev == gateLog[p] IN
        /\ Streak(p) \in {1, 2} => ~ev.released
        /\ Streak(p) = 3 => ev.released
        /\ Streak(p) <= 3
        /\ (ev.before[ev.email] # NoRecord /\ ev.before[ev.email].code # ev.code) =>
              /\ ~ev.released
              /\ ev.after[ev.email] = [code |-> ev.code, count |-> 1]

\* C1 witness: some key saw a third identical submission released, and some
\* submission replaced a different code recorded with count 2
C1_Witness ==
    /\ \E p \in 1..Len(gateLog) : Streak(p) = 3 /\ gateLog[p].released
    /\ \E p \in 1..Len(gateLog) :
          LET ev == gateLog[p] IN
          /\ ev.before[ev.email].count = 2
          /\ ev.before[ev.email].code # ev.code

\* C10: an evaluation for key A leaves the record of every other key as it
\* was, and the first submission to a key records count 1 and returns
\* Suppress however many submissions other keys received before (2 to A, then
\* 1 to B: B has count 1, Suppress).
C10_GateKeyIsolation ==
    \A p \in 1..Len(gateLog) :
        LET ev == gateLog[p] IN
        /\ \A e \in Emails \ {ev.email} : ev.after[e] = ev.before[e]
        /\ PrevEval(p) = 0 =>
              /\ ~ev.released
              /\ ev.after[ev.email] = [code |-> ev.code, count |-> 1]
              /\ p = Len(gateLog) => history[ev.email].count = 1

\* C10 witness: two submissions of one code to A, then the first to B with the same code
C10_Witness ==
    /\ Len(gateLog) = 3
    /\ gateLog[1].email = "a@x" /\ gateLog[2].email = "a@x" /\ gateLog[3].email = "b@x"
    /\ gateLog[1].code = gateLog[2].code /\ gateLog[2].code = gateLog[3].code
    /\ history["a@x"].count = 2
    /\ history["b@x"].count = 1

(* ======================= properties: dispatch ========================= *)
\* number of HTTP calls of this dispatch that went to Google key i
CallsTo(i) == Cardinality({ p \in 1..Len(httpLog) :
                             httpLog[p].prov = "google" /\ httpLog[p].idx = i })
OpenAICalls == { p \in 1..Len(httpLog) : httpLog[p].prov = "openai" }
\* Google key i was called before position p and failed
FailedBefore(i, p) == \E q \in 1..(p - 1) :
                         httpLog[q].prov = "google" /\ httpLog[q].idx = i /\ ~httpLog[q].ok
AllPrimariesFailed == \A i \in 0..(nKeys - 1) : FailedBefore(i, Len(httpLog) + 1)
Finished == dpc \in {"returned", "threw"}

\* Google key i was called before position p and gave no result: the call
\* failed, or it answered 2xx with an empty body
NoResultBefore(i, p) ==
    \E q \in 1..(p - 1) :
        /\ httpLog[q].prov = "google" /\ httpLog[q].idx = i
        /\ (~httpLog[q].ok \/ httpLog[q].body = EmptyBody)

\* C2 (as claimed): gate-enabled variant: within one dispatch every Google key
\* gets at most one HTTP call, and OpenAI is called, or the dispatch throws,
\* only after each of the N Google keys has been called without a result.
C2_Claim_AllPrimariesBeforeFallback ==
    variant = "gate" =>
        /\ \A i \in 0..(nKeys - 1) : CallsTo(i) <= 1
        /\ \A p \in OpenAICalls : \A i \in 0..(nKeys - 1) : NoResultBefore(i, p)
        /\ dpc \in {"openai", "threw"} =>
              \A i \in 0..(nKeys - 1) : NoResultBefore(i, Len(httpLog) + 1)

\* C3 (as claimed): inline-fetch variant: no primary credential receives more
\* than one HTTP call within one dispatch.
C3_Claim_EachPrimaryOnceInline ==
    variant = "inline" => \A i \in 0..(nKeys - 1) : CallsTo(i) <= 1

\* C4: gate-enabled variant: once every configured primary has failed in this
\* dispatch (or none is configured) and OpenAI is configured, OpenAI is the
\* next call, it is called exactly once and last, and the dispatch returns its
\* body or throws its error; without OpenAI, all primaries having failed, the
\* dispatch throws 'All API keys failed'.
C4_FallbackAfterExhaustion ==
    variant = "gate" =>
        /\ Cardinality(OpenAICalls) <= 1
        /\ \A p \in OpenAICalls : p = Len(httpLog)
        /\ (dpc # "idle" /\ hasOpenAI /\ AllPrimariesFailed) =>
              \/ dpc = "openai" /\ OpenAICalls = {}
              \/ /\ Finished
                 /\ OpenAICalls = {Len(httpLog)}
                 /\ LET c == httpLog[Len(httpLog)] IN
                    IF c.ok THEN dpc = "returned" /\ dResp = c.body
                    ELSE dpc = "threw" /\ dErr = ErrOpenAI
        /\ (dpc # "idle" /\ ~hasOpenAI /\ nKeys >= 1 /\ AllPrimariesFailed) =>
              dpc = "threw" /\ dErr = ErrAllFailed

\* C4 witness: two or more primaries failed, OpenAI answered, its body is returned
C4_Witness ==
    /\ variant = "gate"
    /\ nKeys >= 2
    /\ AllPrimariesFailed
    /\ dpc = "returned"
    /\ httpLog[Len(httpLog)].prov = "openai"
    /\ dResp \in ReplyObjects

\* C5 (as claimed): inline-fetch variant: with at least one primary configured,
\* all primaries failed and OpenAI configured, the finished dispatch has called
\* OpenAI and, when that call succeeded, returned its body.
C5_Claim_InlineReachesOpenAI ==
    (variant = "inline" /\ nKeys >= 1 /\ hasOpenAI /\ Finished /\ AllPrimariesFailed) =>
        /\ OpenAICalls # {}
        /\ httpLog[Len(httpLog)].ok => (dpc = "returned" /\ dResp = httpLog[Len(httpLog)].body)

(* ======================= properties: e-mail handler =================== *)
EmptyPool == nKeys = 0 /\ ~hasOpenAI
NothingStored ==
    /\ \A m \in MsgIds : rawMails[m] = 0 /\ codeMails[m] = 0
    /\ history = history0
    /\ gateLog = <<>>

\* C6: no Google key and no OpenAI key: callAIWithRoundRobin throws 'No API
\* keys available' with no HTTP call made, and email() returns with no storage
\* statement run (no duplicate lookup, no raw insert, no gate access, no result
\* insert), no provider call and no notification.
C6_EmptyPoolStopsFirst ==
    EmptyPool =>
        /\ dpc # "idle" => (dpc = "threw" /\ dErr = ErrNoKeys /\ httpLog = <<>>)
        /\ pc \in {"idle", "done"}
        /\ nDb = 0 /\ nHttp = 0 /\ nGate = 0 /\ nDispatch = 0
        /\ barkCalled = {}
        /\ NothingStored

\* C6 witness: with the empty pool a message was delivered and the handler
\* returned, and a dispatch was made and threw
C6_Witness ==
    /\ EmptyPool
    /\ Len(delivered) >= 1
    /\ pc = "done"
    /\ dpc = "threw"

\* C7 (as claimed): one run of the retry loop calls callAIWithRoundRobin at
\* most maxRetries times, and it ends with no extracted data only after
\* maxRetries attempts, never after fewer.
C7_Claim_FailedOnlyAfterMaxRetries ==
    /\ nDispatch <= maxRetries
    /\ loopEnd = "failed" => nDispatch = maxRetries

\* C8 (as claimed): whatever path produced it, the extraction result the
\* retry loop ends with never has codeExist = 1 with title, code or topic
\* missing or empty.
C8_Claim_ValidatedOnEveryPath ==
    loopEnd = "extracted" => ~MissingFields(extractedData)

\* the current delivery repeats the id of an earlier delivery
Redelivery ==
    /\ Len(delivered) >= 2
    /\ \E j \in 1..(Len(delivered) - 1) : delivered[j] = msgId
\* ... and one of those earlier deliveries inserted the raw_mails row
RedeliveryOfStored ==
    /\ Len(delivered) >= 2
    /\ \E j \in 1..(Len(delivered) - 1) : delivered[j] = msgId /\ inserted[j]

\* C9 (as claimed): the same id was delivered twice, one after the other, and
\* the second delivery has returned: raw_mails holds exactly one row for it,
\* code_mails at most one, and the second delivery made no provider call, no
\* gate evaluation and no notification.
C9_Claim_ExactlyOneRaw ==
    (Len(delivered) = 2 /\ Redelivery /\ pc = "done") =>
        /\ rawMails[msgId] = 1
        /\ codeMails[msgId] <= 1
        /\ nHttp = 0 /\ nGate = 0 /\ barkCalled = {}

\* C9 (amended): deliveries one after the other: raw_mails and code_mails
\* never hold more than one row per id; a delivery that repeats an id whose
\* raw row an earlier delivery inserted leaves exactly that one row, runs the
\* duplicate lookup and nothing else: no provider call, no gate evaluation, no
\* notification, no insert.
C9_DuplicateSkipped ==
    /\ \A m \in MsgIds : rawMails[m] <= 1 /\ codeMails[m] <= 1
    /\ RedeliveryOfStored =>
          /\ rawMails[msgId] = 1
          /\ pc \in {"dedupe", "done"}
          /\ nDb <= 1
          /\ ~inserted[Len(inserted)]
          /\ nDispatch = 0 /\ nHttp = 0 /\ nGate = 0
          /\ barkCalled = {}

\* C9 witness: the first delivery stored the raw row and a result row, the
\* second delivery of the same id looked it up and returned
C9_Witness ==
    /\ Len(delivered) = 2
    /\ RedeliveryOfStored
    /\ inserted[1]
    /\ pc = "done"
    /\ nDb = 1
    /\ rawMails[msgId] = 1
    /\ codeMails[msgId] = 1

\* the gate evaluation made by the invocation that is running (or ran last)
ThisEval == gateLog[Len(gateLog)]
\* the faults of C11: the lookup, the insert or an update did not succeed
WriteOrLookupFailed == {"select", "write", "writeFail"}

\* C11 (as claimed): a gate evaluation whose SELECT, INSERT or UPDATE failed
\* returns Suppress, and the e-mail it belongs to gets no code_mails row and
\* no notification.
C11_Claim_FailedGateSuppresses ==
    /\ \A p \in 1..Len(gateLog) :
          gateLog[p].fault \in WriteOrLookupFailed => ~gateLog[p].released
    /\ (nGate >= 1 /\ ThisEval.fault \in WriteOrLookupFailed) =>
          /\ pc \notin {"resultInsert", "bark"}
          /\ codeMails[msgId] = 0
          /\ barkCalled = {}

\* C12: a result with a code is saved and notified to the nTokens Bark
\* targets: whichever requests fail, the handler returns only when every
\* target has had its request, a target's failure ends nothing, the
\* code_mails row stays and the message is not rejected.
C12_EveryTargetNotified ==
    /\ barkFailed \subseteq barkCalled
    /\ barkCalled \subseteq 1..nTokens
    /\ pc = "bark" => (saved # "throw" /\ barkCalled # 1..nTokens)
    /\ (useBark /\ saved = "ok" /\ pc = "done") =>
          /\ barkCalled = 1..nTokens
          /\ codeMails[msgId] = 1
          /\ loopEnd = "extracted"
          /\ ~rejected

\* C12 witness: every target was called, one request failed and another succeeded
C12_Witness ==
    /\ useBark /\ saved = "ok" /\ pc = "done"
    /\ barkCalled = 1..nTokens
    /\ barkFailed # {} /\ barkFailed # barkCalled
    /\ codeMails[msgId] = 1

(* ========================= properties: clock ========================== *)
\* the minute bucket of a time in milliseconds
Bucket(ms) == ms \div MsPerMinute

\* C13: with N >= 1 Google keys the key tried first is floor(now / 1 minute)
\* mod N, in 0..N-1; two dispatches in the same minute bucket select the same
\* index whatever ran or failed before, and dispatches d buckets apart select
\* indices that differ by d mod N.
C13_TimeSelectedIndex ==
    /\ \A p \in 1..Len(selLog) :
          /\ selLog[p].idx \in 0..(nKeys - 1)
          /\ selLog[p].idx = Bucket(selLog[p].at) % nKeys
    /\ \A p, q \in 1..Len(selLog) :
          p < q =>
             LET d == Bucket(selLog[q].at) - Bucket(selLog[p].at) IN
             /\ d = 0 => selLog[q].idx = selLog[p].idx
             /\ selLog[q].idx = (selLog[p].idx + d) % nKeys

\* C13 witness: three keys; two dispatches at different times of one bucket,
\* the first of them failed; the next dispatch one bucket later wraps to index 0
C13_Witness ==
    /\ nKeys = 3
    /\ Len(selLog) = 3
    /\ selLog[1].at # selLog[2].at
    /\ Bucket(selLog[1].at) = Bucket(selLog[2].at)
    /\ selLog[2].after = "threw"
    /\ selLog[2].idx = 2
    /\ Bucket(selLog[3].at) = Bucket(selLog[2].at) + 1
    /\ selLog[3].idx = 0

(* =================== properties: gate inside the handler ============== *)
\* C14 (as claimed): storage statements may fail: when the gate released for
\* a key and that e-mail's processing has finished, password_reset_history
\* holds no row for the key (so the next submission starts at count 1).
C14_Claim_ReleaseLeavesNoRecord ==
    (nGate >= 1 /\ ThisEval.released /\ pc = "done") =>
        history[ThisEval.email] = NoRecord

\* C15: a call of processAIResponse with a result whose type is LOGIN, OTHER
\* or absent does not call checkPasswordResetRepeat, leaves
\* password_reset_history as it is and returns the result unchanged, whatever
\* rows the table holds.
C15_LoginBypassesGate ==
    [][ (lastIn' # Nothing /\ lastIn'.type # "PASSWORD_RESET") =>
            /\ history' = history
            /\ gateLog' = gateLog
            /\ lastOut' = lastIn' ]_vars

\* C15 witness: a LOGIN result with a code for an address whose row stands at
\* count 2 came back unchanged and the row is still there
C15_Witness ==
    /\ lastIn # Nothing
    /\ lastIn.type = "LOGIN" /\ lastIn.codeExist = 1 /\ lastIn.title = "a@x"
    /\ lastOut = lastIn
    /\ history["a@x"] = [code |-> lastIn.code, count |-> 2]

(* ================= properties: storage failures in the handler ======== *)
\* the raw_mails INSERT of the running invocation was run and stored nothing
RawInsertFailed ==
    /\ Len(delivered) >= 1
    /\ nDb >= 2
    /\ ~inserted[Len(inserted)]

\* C16 (as claimed): when the raw_mails INSERT fails, by success = false or by
\* throwing, setReject was called and the invocation is over: no provider
\* call, no gate evaluation, no code_mails insert, no notification.
C16_Claim_RawFailureRejects ==
    RawInsertFailed =>
        /\ rejected
        /\ pc = "done"
        /\ nDispatch = 0 /\ nHttp = 0 /\ nGate = 0
        /\ saved = "" /\ codeMails[msgId] = 0
        /\ barkCalled = {}

\* C17 (as claimed): when the code_mails INSERT fails, by success = false or
\* by throwing, no Bark request is made for that e-mail.
C17_Claim_UnsavedResultNotNotified ==
    saved \in {"fail", "throw"} => barkCalled = {}

\* C18: whatever fails (provider calls, malformed answers, the duplicate
\* lookup, the raw insert, gate statements, the result insert, Bark
\* requests), no exception leaves email(): the handler is at one of its own
\* statements or has returned.
C18_NoErrorEscapes ==
    /\ pc # "escaped"
    /\ pc \in {"idle", "dedupe", "rawInsert", "loop", "ai", "direct", "directAnswer", "backoff",
               "resultInsert", "bark", "done"}
    /\ (RawInsertFailed \/ saved = "throw") => pc = "done"
    /\ (nDb = 1 /\ pc \notin {"dedupe", "rawInsert"}) => pc = "done"

\* C18 witness: providers failed in the first attempt, the gate released
\* although its DELETE threw, the code_mails INSERT threw, and email() returned
C18_Witness ==
    /\ pc = "done"
    /\ saved = "throw"
    /\ nDispatch >= 2
    /\ nGate = 1 /\ ThisEval.fault = "clear" /\ ThisEval.released

(* ------------------- C19: when the secondary provider is called ------------------- *)

\* a step in which the secondary provider receives a call: callOpenAI inside
\* callAIWithRoundRobin, or the catch block's direct callOpenAI
SecondaryCalled ==
    \/ Len(directLog') > Len(directLog)
    \/ /\ Len(httpLog') = Len(httpLog) + 1
       /\ httpLog'[Len(httpLog')].prov = "openai"

\* no Google key has answered 2xx in the calls of the current attempt
NoPrimaryAnswered ==
    \A q \in 1..Len(httpLog) : httpLog[q].prov = "google" => ~httpLog[q].ok

\* C19: with at least one primary credential configured, the secondary provider
\* is called only after every configured primary credential has been called and
\* has failed in the same attempt, and never when a primary credential answered
\* successfully at HTTP level.
C19_Claim_SecondaryAfterAllPrimaries ==
    [][(nKeys >= 1 /\ SecondaryCalled) => (AllPrimariesFailed /\ NoPrimaryAnswered)]_vars

(* ------------------- C20: the direct call of the retry loop ------------------- *)

\* the direct callOpenAI of the catch block got an answer that reached break
DirectAccepted == \E d \in 1..Len(directLog) : directLog[d].accepted

\* the retry loop has been left: no attempt is running or can still start
LoopLeft == pc \in {"resultInsert", "bark", "done"}

\* C20: the retry loop calls the secondary provider directly only in attempt 0,
\* at most once per invocation and only when a secondary credential exists;
\* attempts 1 and 2 make no direct call, and an accepted direct response ends
\* the loop with no further attempt.
C20_DirectCallOnlyInFirstAttempt ==
    /\ Len(directLog) <= 1
    /\ \A d \in 1..Len(directLog) : directLog[d].attempt = 0
    /\ directLog # <<>> => hasOpenAI
    /\ DirectAccepted => (LoopLeft /\ nDispatch = 1 /\ retryCount = 0)

\* attempt 0 failed, the direct call failed as well, and attempts 1 and 2 ran
\* to the end without another direct call
C20_Witness ==
    /\ Len(directLog) = 1
    /\ ~DirectAccepted
    /\ nDispatch = maxRetries
    /\ pc = "done"

\* the direct call of attempt 0 was accepted and the handler went on to store the result
C20_WitnessAccepted ==
    /\ DirectAccepted
    /\ saved = "ok"
    /\ pc = "done"

(* ------------------- C30: one gate evaluation per e-mail ------------------- *)

\* C30: one email invocation calls checkPasswordResetRepeat at most once, over
\* its three attempts and the direct call of attempt 0 together, and no gate
\* counter is more than 1 above what it was before the e-mail.
C30_GateEvaluatedAtMostOnce ==
    /\ nGate <= 1
    /\ \A e \in Emails : history[e].count <= history0[e].count + 1

\* the gate was evaluated in a later attempt, after earlier attempts had failed
C30_Witness ==
    /\ nGate = 1
    /\ retryCount >= 1
    /\ history["a@x"].count = history0["a@x"].count + 1
    /\ pc = "done"

(* ------------------- C22: only released reset codes are stored ------------------- *)

\* this invocation has reached the result insert or gone past it
ResultHandled == pc \in {"resultInsert", "bark"} \/ saved # "" \/ barkCalled # {}

\* a step that handles a provider answer of type PASSWORD_RESET: in the try
\* block of an attempt, or after the direct call of attempt 0
ResetAnswerHandled ==
    /\ \/ pc = "ai" /\ dpc = "returned" /\ pc' # "ai"
       \/ pc = "directAnswer" /\ pc' # "directAnswer"
    /\ dResp.kind = "obj"
    /\ dResp.type = "PASSWORD_RESET"

\* in this step the gate was evaluated for that answer and returned Release
ReleasedNow ==
    /\ nGate' = nGate + 1
    /\ gateLog'[Len(gateLog')].released
    /\ gateLog'[Len(gateLog')].email = dResp.title
    /\ gateLog'[Len(gateLog')].code = dResp.code

\* C22: for an e-mail whose accepted AI result is of type PASSWORD_RESET, the
\* result record is inserted and notifications are issued only if the gate
\* returned Release for it; on Suppress (a result without code or title
\* included) the e-mail is left with { codeExist: 0 }, which yields no result
\* record and no notification, on the main path and after the direct call of
\* attempt 0 alike.
C22_ResetStoredOnlyOnRelease ==
    /\ [](ResultHandled => (Truthy(extractedData) /\ extractedData.codeExist = 1))
    /\ [][ResetAnswerHandled =>
            /\ Truthy(extractedData')
            /\ extractedData'.codeExist = 1 => ReleasedNow
            /\ ~ReleasedNow => (extractedData' = CodeExist0 /\ pc' \in {"loop", "done"})]_vars

\* a released reset code was stored and every target notified
C22_Witness ==
    /\ nGate = 1
    /\ gateLog[Len(gateLog)].released
    /\ extractedData.topic = ReleaseTopic
    /\ saved = "ok"
    /\ useBark /\ barkCalled = 1..nTokens
    /\ pc = "done"

\* a reset code from the direct call of attempt 0 was suppressed
C22_WitnessSuppressedDirect ==
    /\ DirectAccepted
    /\ nGate = 1 /\ ~gateLog[Len(gateLog)].released
    /\ extractedData = CodeExist0
    /\ saved = "" /\ barkCalled = {}
    /\ pc = "done"

(* ------------------- C23: order of the calls of one dispatch ------------------- *)

\* the place a call has in the order: the selected key, the other keys by
\* index, the secondary provider
CallRank(c) ==
    IF c.prov = "openai" THEN nKeys + 1
    ELSE IF c.idx = keyIndex THEN 0 ELSE c.idx + 1

\* C23: gate-enabled variant: within one dispatch the time-selected primary is
\* called first, then the remaining primaries in ascending index order without
\* the selected one, then the secondary; the first successful call ends the
\* dispatch, and no credential after it in this order is called.
C23_Claim_OrderedUntilFirstSuccess ==
    variant = "gate" =>
        /\ \A p, q \in 1..Len(httpLog) : p < q => CallRank(httpLog[p]) < CallRank(httpLog[q])
        /\ (nKeys > 0 /\ httpLog # <<>>) => CallRank(httpLog[1]) = 0
        /\ \A p \in 1..Len(httpLog) :
              httpLog[p].ok => (p = Len(httpLog) /\ Finished)

\* the order alone, which the dispatch keeps in every case
CallsInOrder ==
    variant = "gate" =>
        /\ \A p, q \in 1..Len(httpLog) : p < q => CallRank(httpLog[p]) < CallRank(httpLog[q])
        /\ (nKeys > 0 /\ httpLog # <<>>) => CallRank(httpLog[1]) = 0

(* ------------------- C24: the waits of the retry loop ------------------- *)

StepOrder == <<"dedupe", "rawInsert", "provider", "gate", "resultInsert", "bark">>
\* the place of a kind of step in StepOrder
StepRank(kind) == CHOOSE r \in 1..Len(StepOrder) : StepOrder[r] = kind
Taken(kind) == \E i \in 1..Len(steps) : steps[i] = kind

\* C25: within one email invocation the duplicate lookup comes before the raw
\* insert, the raw insert before the first provider call, every gate evaluation
\* before the result insert, and the result insert before the first
\* notification call; no step of an earlier kind follows one of a later kind.
C25_StepsInOrder ==
    /\ \A i, j \in 1..Len(steps) : i < j => StepRank(steps[i]) < StepRank(steps[j])
    /\ Taken("rawInsert") => Taken("dedupe")
    /\ Taken("provider") => Taken("rawInsert")
    /\ Taken("gate") => Taken("provider")
    /\ Taken("resultInsert") => Taken("provider")
    /\ Taken("bark") => Taken("resultInsert")

\* an invocation that took every kind of step
C25_Witness ==
    /\ steps = StepOrder
    /\ barkCalled = 1..nTokens
    /\ pc = "done"

(* ------------------- C26: an exhausted e-mail is not retried ------------------- *)

\* C26: when the retry loop ends exhausted (three failed attempts), the
\* invocation inserts no result record and sends no notification, the raw
\* record stays stored, and a later delivery of the same message id is stopped
\* at the duplicate lookup without any provider call.
C26_ExhaustedIsFinal ==
    /\ Exhausted(loopEnd, attempts) =>
          /\ pc = "done"
          /\ saved = "" /\ barkCalled = {} /\ codeMails[msgId] = 0
          /\ rawMails[msgId] >= 1
    /\ prevExhausted =>
          /\ pc \in {"dedupe", "done"}
          /\ nDispatch = 0 /\ nHttp = 0 /\ nGate = 0
          /\ saved = "" /\ barkCalled = {} /\ codeMails[msgId] = 0
          /\ rawMails[msgId] = 1

\* the message was delivered again after its extraction had failed three
\* times, and the second invocation returned after its lookup
C26_Witness ==
    /\ prevExhausted
    /\ Len(delivered) = 2
    /\ nDb = 1
    /\ pc = "done"

(* ------------- concurrent deliveries of one message (raw_mails) ------------- *)
\* the message id all racing invocations deliver
RaceMsg == CHOOSE m \in MsgIds : TRUE

RaceInit ==
    /\ variant = "gate"
    /\ nKeys = 1
    /\ hasOpenAI = FALSE
    /\ now = 0
    /\ useBark = FALSE
    /\ nTokens = 0
    /\ DispVarsInit
    /\ GateVarsInit
    /\ MailVarsInit

\* what a step of one racing invocation leaves alone
RaceFrame ==
    UNCHANGED <<confVars, evals, updatedAt, ageLog, keyCalls, openaiCalls, cursorVars, obsVars, barkConf, now, dispVars, gateVars,
                codeMails, mailVars>>

\* email(message, env, ctx) is called for RaceMsg: up to the duplicate lookup
RaceDeliver(p) ==
    /\ racers[p].pc = "idle"
    /\ racers' = [racers EXCEPT ![p].pc = "dedupe"]
    /\ UNCHANGED rawMails
    /\ RaceFrame

\* SELECT 1 FROM raw_mails WHERE message_id = ? answers or throws; seen is the
\* number of rows the table held for the id at that moment
RaceLookup(p, o) ==
    /\ racers[p].pc = "dedupe"
    /\ racers' = [racers EXCEPT
                    ![p].seen = rawMails[RaceMsg],
                    ![p].pc = IF o = "throw" THEN OuterCatch("dedupe")
                              ELSE IF Existing(rawMails, RaceMsg) THEN "done" ELSE "rawInsert"]
    /\ UNCHANGED rawMails
    /\ RaceFrame

\* INSERT INTO raw_mails ... succeeds, reports success = false, or throws
RaceInsert(p, o) ==
    /\ racers[p].pc = "rawInsert"
    /\ rawMails' = IF o = "ok" THEN InsertRaw(rawMails, RaceMsg) ELSE rawMails
    /\ racers' = [racers EXCEPT
                    ![p].inserted = (o = "ok"),
                    ![p].pc = IF o = "ok" THEN "loop"
                              ELSE IF o = "throw" THEN OuterCatch("rawInsert") ELSE "done"]
    /\ RaceFrame

\* the first attempt of the retry loop calls callAIWithRoundRobin for the message
RaceCallAI(p) ==
    /\ racers[p].pc = "loop"
    /\ racers' = [racers EXCEPT ![p].calls = @ + 1, ![p].pc = "ai"]
    /\ UNCHANGED rawMails
    /\ RaceFrame

RaceNext ==
    \E p \in Racers :
        \/ RaceDeliver(p)
        \/ \E o \in {"ok", "throw"} : RaceLookup(p, o)
        \/ \E o \in {"ok", "fail", "throw"} : RaceInsert(p, o)
        \/ RaceCallAI(p)

SpecRace == RaceInit /\ [][RaceNext]_vars

\* the invocations whose INSERT added a row
Inserters == { p \in Racers : racers[p].inserted }

\* C21: the duplicate lookup and the raw insert are separate steps and the
\* table accepts a second row for the same message id: an invocation goes on
\* to its insert exactly when its lookup saw no row, whatever has been inserted
\* since, every insert that succeeds adds a row, and every invocation that
\* inserted goes on to the provider. So two concurrent deliveries of one
\* message can both insert and both call the provider (C21_Witness).
C21_CheckThenInsertRace ==
    /\ \A p \in Racers :
          /\ racers[p].pc \in {"rawInsert", "loop", "ai"} => racers[p].seen = 0
          /\ racers[p].pc \in {"loop", "ai"} <=> racers[p].inserted
          /\ racers[p].calls > 0 => racers[p].inserted
    /\ rawMails[RaceMsg] = Cardinality(Inserters)

\* two invocations for the same message id have both inserted a raw row and
\* both called the provider
C21_Witness ==
    /\ \E p, q \in Racers :
          /\ p # q
          /\ racers[p].inserted /\ racers[q].inserted
          /\ racers[p].calls = 1 /\ racers[q].calls = 1
    /\ rawMails[RaceMsg] >= 2

(* ------------- concurrent gate evaluations for one key ------------- *)
\* the key (result.title) all concurrent evaluations submit
RaceKey == "a@x"

\* the INSERT of an evaluation that saw no row, when another evaluation has
\* inserted one since: the record is keyed by the address, the statement
\* throws and catch (error) returns false
InsertConflict(hist, email) == hist[email] # NoRecord

\* checkPasswordResetRepeat from the statement after its SELECT on: existing
\* is what the SELECT returned, hist the table as it is now
WriteAfterSelect(hist, existing, email, code) ==
    IF existing = NoRecord
    THEN IF InsertConflict(hist, email) THEN Caught(hist)
         ELSE [ret |-> FALSE, hist |-> InsertHistory(hist, email, code)]
    ELSE IF existing.code = code
         THEN LET newCount == existing.count + 1 IN
              [ret |-> newCount >= Threshold, hist |-> UpdateCount(hist, email, newCount)]
         ELSE [ret |-> FALSE, hist |-> UpdateCode(hist, email, code)]

\* what a step of one concurrent evaluation leaves alone
EvalFrame ==
    UNCHANGED <<confVars, racers, updatedAt, ageLog, keyCalls, openaiCalls, cursorVars, obsVars, barkConf, now, dispVars, gateLog,
                lastIn, lastOut, storeVars, mailVars>>

\* processAIResponse is called with a PASSWORD_RESET result for RaceKey and
\* code c; evaluations are numbered in the order they begin
EvalBegin(p, c) ==
    /\ evals[p].pc = "idle"
    /\ p > 1 => evals[p - 1].pc # "idle"
    /\ evals' = [evals EXCEPT ![p].pc = "select", ![p].code = c]
    /\ UNCHANGED history
    /\ EvalFrame

\* SELECT code, count FROM password_reset_history WHERE email = ? returns
EvalSelect(p) ==
    /\ evals[p].pc = "select"
    /\ evals' = [evals EXCEPT ![p].pc = "write", ![p].existing = SelectHistory(history, RaceKey)]
    /\ UNCHANGED history
    /\ EvalFrame

\* the INSERT or UPDATE that follows runs, and checkPasswordResetRepeat returns
EvalWrite(p) ==
    /\ evals[p].pc = "write"
    /\ LET r == WriteAfterSelect(history, evals[p].existing, RaceKey, evals[p].code) IN
       /\ history' = r.hist
       /\ evals' = [evals EXCEPT ![p].ret = r.ret, ![p].pc = IF r.ret THEN "clear" ELSE "done"]
    /\ EvalFrame

\* if (shouldExtract): clearPasswordResetHistory runs and the release object is returned
EvalClear(p) ==
    /\ evals[p].pc = "clear"
    /\ history' = clearPasswordResetHistory(history, RaceKey, "none")
    /\ evals' = [evals EXCEPT ![p].pc = "done"]
    /\ EvalFrame

EvalNext ==
    \E p \in Evaluators :
        \/ \E c \in Codes : EvalBegin(p, c)
        \/ EvalSelect(p)
        \/ EvalWrite(p)
        \/ EvalClear(p)

SpecGateRace == RaceInit /\ [][EvalNext]_vars

\* the evaluations that have begun, those of code c among them, and those
\* that were given Release
Begun == { p \in Evaluators : evals[p].pc # "idle" }
BegunWith(c) == { p \in Begun : evals[p].code = c }
Released == { p \in Evaluators : evals[p].ret }

\* C28: under any interleaving of concurrent evaluations for one key, Release
\* is returned to an evaluation of code c only if at least 3 evaluations with
\* code c have begun: a code submitted fewer than 3 times is never released.
C28_Claim_ReleaseNeedsThreeOfCode ==
    \A p \in Released : Cardinality(BegunWith(evals[p].code)) >= Threshold

\* C29: for k evaluations of the same code on one key, starting from no record,
\* the number of Release decisions under any interleaving is the sequential
\* one, floor(k/3): no increment is lost and no Release is given twice.
C29_Claim_ReleasesAsSequential ==
    (Begun # {} /\ \A p \in Begun : evals[p].pc = "done" /\ evals[p].code = "111111")
        => Cardinality(Released) = Cardinality(Begun) \div Threshold

(* ------------- ageing of gate records (fetch handler) ------------- *)
\* DELETE FROM password_reset_history WHERE datetime(updated_at) <
\* datetime('now', '-30 minutes'): the table afterwards
CleanupHistory(hist, stamps, ms) ==
    [e \in DOMAIN hist |->
        IF hist[e] # NoRecord /\ stamps[e] < ms - TtlMinutes * MsPerMinute
        THEN NoRecord ELSE hist[e]]

\* the row found for a key is older than the time-to-live at time ms
AgedOut(stamp, ms) == ms - stamp > TtlMinutes * MsPerMinute

\* the PASSWORD_RESET results the ageing specification submits
ResetResults == { Obj("PASSWORD_RESET", 1, RaceKey, c, "login") : c \in Codes }

AgeFrame ==
    UNCHANGED <<confVars, racers, evals, keyCalls, openaiCalls, cursorVars, obsVars, barkConf, dispVars, storeVars, mailVars>>

\* one call processAIResponse(db, result), run to completion: every INSERT
\* and UPDATE sets updated_at = CURRENT_TIMESTAMP
AgeEvaluate(result) ==
    /\ Len(gateLog) < MaxEvals
    /\ LET r == processAIResponse(history, result, "none") IN
       /\ history' = r.hist
       /\ gateLog' = LogGate(gateLog, history, result, r, "none")
       /\ lastIn' = result
       /\ lastOut' = r.out
       /\ updatedAt' = [updatedAt EXCEPT ![result.title] = now]
       /\ ageLog' = Append(ageLog, [at |-> now, rowAt |-> updatedAt[result.title],
                                    had |-> history[result.title] # NoRecord])
    /\ UNCHANGED now
    /\ AgeFrame

\* time passes
AgeTick ==
    /\ now < MaxAgeSteps * AgeStepMinutes * MsPerMinute
    /\ now' = now + AgeStepMinutes * MsPerMinute
    /\ UNCHANGED <<gateVars, updatedAt, ageLog>>
    /\ AgeFrame

\* fetch(): the results page is requested and the cleanup statement runs
Fetch ==
    /\ history' = CleanupHistory(history, updatedAt, now)
    /\ UNCHANGED <<gateLog, lastIn, lastOut, updatedAt, ageLog, now>>
    /\ AgeFrame

AgeNext ==
    \/ \E result \in ResetResults : AgeEvaluate(result)
    \/ AgeTick
    \/ Fetch

SpecAge == RaceInit /\ [][AgeNext]_vars

\* C27: a gate record whose last update is older than its time-to-live (30
\* minutes) never contributes to a Release: an evaluation that finds such a
\* record, or none because the cleanup removed it, is a first sighting (count
\* 1, Suppress), whether or not the results page was requested in between.
C27_Claim_AgedRecordNotCounted ==
    \A p \in 1..Len(gateLog) :
        AgedOut(ageLog[p].rowAt, ageLog[p].at) =>
            /\ ~gateLog[p].released
            /\ gateLog[p].after[gateLog[p].email] = [code |-> gateLog[p].code, count |-> 1]

(* ------------- concurrent deliveries of one message: the gate ------------- *)
\* what the provider extracts from the message all racing invocations deliver
RaceResult == Obj("PASSWORD_RESET", 1, RaceKey, "111111", "reset")

\* the provider answered the first attempt with RaceResult and
\* processAIResponse(env.DB, extractedData) ran, no statement failing
RaceGate(p) ==
    /\ racers[p].pc = "ai"
    /\ LET r == processAIResponse(history, RaceResult, "none") IN
       /\ history' = r.hist
       /\ gateLog' = LogGate(gateLog, history, RaceResult, r, "none")
       /\ lastIn' = RaceResult
       /\ lastOut' = r.out
    /\ racers' = [racers EXCEPT ![p].pc = "done"]
    /\ UNCHANGED <<confVars, evals, updatedAt, ageLog, keyCalls, openaiCalls, cursorVars, obsVars, barkConf, now, dispVars,
                   storeVars, mailVars>>

ReplayNext ==
    \/ RaceNext
    \/ \E p \in Racers : RaceGate(p)

SpecReplay == RaceInit /\ [][ReplayNext]_vars

\* the gate evaluations that changed the record of their key
Advances == { p \in 1..Len(gateLog) : gateLog[p].after # gateLog[p].before }

\* C31: one message identifier advances a gate counter at most once, also when
\* several invocations deliver that identifier concurrently: of all gate
\* evaluations made for the message at most one changes the record, and the
\* message alone never brings its code to Release.
C31_Claim_OneAdvancePerMessage ==
    /\ Cardinality(Advances) <= 1
    /\ \A p \in 1..Len(gateLog) : ~gateLog[p].released

(* ------------- gate specification (sequential, statements may fail) ------------- *)
\* the PASSWORD_RESET results submitted, for every key and code
KeyedResetResults == { Obj("PASSWORD_RESET", 1, e, c, "reset") : e \in Emails, c \in Codes }

\* one call processAIResponse(db, result), run to completion; f names the
\* statement of it that fails
EvaluateFaulty(result, f) ==
    /\ Len(gateLog) < MaxFaultyEvals
    /\ LET r == processAIResponse(history, result, f) IN
       /\ history' = r.hist
       /\ gateLog' = LogGate(gateLog, history, result, r, f)
       /\ lastIn' = result
       /\ lastOut' = r.out
    /\ UNCHANGED <<confVars, concVars, obsVars, barkConf, now, dispVars, storeVars, mailVars>>

GateFaultyNext == \E result \in KeyedResetResults, f \in GateFaults : EvaluateFaulty(result, f)

SpecGateFaulty == GateInit /\ [][GateFaultyNext]_vars

\* C32: between evaluations every stored gate record has 1 <= count <
\* Threshold: no record rests at a count that already satisfies the release
\* condition, in any sequence of sequential evaluations, storage statements
\* allowed to fail.
C32_Claim_CountBelowThreshold ==
    \A e \in Emails :
        history[e] # NoRecord => (1 <= history[e].count /\ history[e].count < Threshold)

(* ------------- e-mail handler: termination ------------- *)
\* a step of the running invocation: a provider call, a storage call or a
\* backoff wait returns, or the handler moves on to its next statement
HandlerStep ==
    \/ \E o \in {"ok", "throw"} : DedupeCheck(o)
    \/ \E o \in {"ok", "fail", "throw"} : RawInsert(o)
    \/ CallAI
    \/ \E o \in HttpOutcomes, reply \in Replies : CallSelected(o, reply) /\ MailFrame
    \/ \E o \in HttpOutcomes, reply \in Replies : CallOther(o, reply) /\ MailFrame
    \/ \E o \in HttpOutcomes, reply \in OpenAIReplies : CallOpenAI(o, reply) /\ MailFrame
    \/ \E f \in GateFaults : AIReturned(f)
    \/ AIThrew
    \/ \E o \in HttpOutcomes, reply \in OpenAIReplies : DirectOpenAI(o, reply)
    \/ \E f \in GateFaults : DirectAnswered(f)
    \/ Backoff
    \/ LoopExit
    \/ \E o \in {"ok", "fail", "throw"} : ResultInsert(o)
    \/ \E t \in 1..MaxTokens, ok \in BOOLEAN : BarkCall(t, ok)

\* the worker of src/unnamed/part_001 with no gate record stored, or with
\* one that the next sighting of its code releases
LiveInit ==
    /\ Init
    /\ history["a@x"] \in {NoRecord, [code |-> "111111", count |-> Threshold - 1]}

\* every awaited call of a running invocation eventually returns
SpecLive == LiveInit /\ [][Next]_vars /\ WF_vars(HandlerStep)

\* an invocation of email() is between its first await and its return
Running == pc \notin {"idle", "done"}
\* the invocation is inside the while loop
InLoop == pc \in {"loop", "ai", "direct", "directAnswer", "backoff"} /\ loopEnd = ""

\* C33: provided every provider call, storage call and backoff wait
\* eventually returns, the retry loop always terminates: an invocation that
\* is inside the loop eventually leaves it, a running invocation eventually
\* returns, and no run of the loop makes more than maxRetries attempts.
C33_RetryLoopTerminates ==
    /\ InLoop ~> ~InLoop
    /\ Running ~> (pc = "done")
    /\ [](Len(attempts) <= maxRetries /\ retryCount <= maxRetries)

\* an invocation returned after its loop made maxRetries attempts, each with a
\* higher attempt counter, and ended without a result
C33_Witness ==
    /\ pc = "done"
    /\ loopEnd = "failed"
    /\ Len(attempts) = maxRetries
    /\ retryCount = maxRetries

(* ------------- e-mail handler: HTTP calls per credential ------------- *)
\* the variables of concVars the call counters leave alone
CountFrame == UNCHANGED <<racers, evals, updatedAt, ageLog, cursorVars>>

\* callSingleGoogleAPI was called with apiKeys[i]
CountKey(i) ==
    /\ keyCalls' = Append(keyCalls, i)
    /\ UNCHANGED openaiCalls
    /\ CountFrame

\* callOpenAI was called
CountOpenAI ==
    /\ openaiCalls' = openaiCalls + 1
    /\ UNCHANGED keyCalls
    /\ CountFrame

\* the e-mail handler, every HTTP call to a provider counted. One message id
\* is delivered, so only the invocation whose raw insert succeeded gets as far
\* as the retry loop and the counts are those of that invocation
CallsNext ==
    \/ \E m \in MsgIds : Deliver(m)
    \/ \E o \in {"ok", "throw"} : DedupeCheck(o)
    \/ \E o \in {"ok", "fail", "throw"} : RawInsert(o)
    \/ CallAI
    \/ \E o \in HttpOutcomes, reply \in Replies :
          CallSelected(o, reply) /\ MailFrameCore /\ CountKey(keyIndex)
    \/ \E o \in HttpOutcomes, reply \in Replies :
          CallOther(o, reply) /\ MailFrameCore /\ CountKey(di)
    \/ \E o \in HttpOutcomes, reply \in OpenAIReplies :
          CallOpenAI(o, reply) /\ MailFrameCore /\ CountOpenAI
    \/ \E f \in GateFaults : AIReturned(f)
    \/ AIThrew
    \/ \E o \in HttpOutcomes, reply \in OpenAIReplies : DirectOpenAICore(o, reply) /\ CountOpenAI
    \/ \E f \in GateFaults : DirectAnswered(f)
    \/ Backoff
    \/ LoopExit
    \/ \E o \in {"ok", "fail", "throw"} : ResultInsert(o)
    \/ \E t \in 1..MaxTokens, ok \in BOOLEAN : BarkCall(t, ok)

SpecCalls == LiveInit /\ [][CallsNext]_vars

\* the number of HTTP calls made with apiKeys[i]
KeyCallCount(i) == Cardinality({ p \in 1..Len(keyCalls) : keyCalls[p] = i })

\* C34: in the gate-enabled variant one invocation calls the secondary
\* provider at most maxRetries + 1 times (once per dispatch, plus the direct
\* call of attempt 0) and each primary key at most maxRetries times (once per
\* attempt).
C34_CallsPerCredentialBounded ==
    /\ openaiCalls <= maxRetries + 1
    /\ \A i \in 0..(nKeys - 1) : KeyCallCount(i) <= maxRetries
    /\ \A p \in 1..Len(keyCalls) : keyCalls[p] \in 0..(nKeys - 1)

\* an invocation that called the secondary provider four times and every one
\* of its two primary keys three times
C34_Witness ==
    /\ pc = "done"
    /\ nKeys = 2
    /\ openaiCalls = maxRetries + 1
    /\ \A i \in 0..(nKeys - 1) : KeyCallCount(i) = maxRetries

(* ------------- gate: PASSWORD_RESET results with a field missing ------------- *)
\* a PASSWORD_RESET result for which `!result.code || !result.title` holds
Incomplete(result) ==
    /\ result # Nothing
    /\ result.type = "PASSWORD_RESET"
    /\ (result.code = "" \/ result.title = "")

\* C35: a call of processAIResponse with a PASSWORD_RESET result that lacks
\* code or title returns { codeExist: 0 } and neither reads, creates, changes
\* nor deletes a gate record: checkPasswordResetRepeat is not called, the table
\* is as before, and since no statement runs none can fail.
C35_IncompleteResetTouchesNoRecord ==
    [][ Incomplete(lastIn') =>
            /\ lastOut' = CodeExist0
            /\ history' = history
            /\ gateLog' = gateLog
            /\ \A f \in GateFaults :
                  processAIResponse(history, lastIn', f) =
                      [out |-> CodeExist0, hist |-> history, evaluated |-> FALSE, ret |-> FALSE] ]_vars

\* a PASSWORD_RESET result without its code, for an address whose record
\* stands one sighting before release, was suppressed and the record is as it was
C35_Witness ==
    /\ Incomplete(lastIn)
    /\ lastIn.title = "a@x" /\ lastIn.code = ""
    /\ lastOut = CodeExist0
    /\ \E c \in Codes : history["a@x"] = [code |-> c, count |-> Threshold - 1]

(* ------------- module-level key cursor (src/src/index.ts 624-885) ------------- *)
\* const key = keys[googleApiKeyIndex % keys.length]: the index returned
ReturnedKey(idx, n) == idx % n
\* slip: the cursor moved on by two
AdvanceCursor_byTwo(idx, n) == (idx + 2) % n
\* googleApiKeyIndex = (googleApiKeyIndex + 1) % keys.length
AdvanceCursor(idx, n) == (idx + 1) % n

CursorInit ==
    /\ variant = "cursor"
    /\ nKeys \in 1..MaxKeys
    /\ hasOpenAI = FALSE
    /\ now = 0
    /\ useBark = FALSE
    /\ nTokens = 0
    /\ DispVarsInit
    /\ GateVarsInit
    /\ MailVarsInit

CursorFrame ==
    UNCHANGED <<confVars, racers, evals, updatedAt, ageLog, keyCalls, openaiCalls, obsVars,
                barkConf, now, dispVars, gateVars, storeVars, mailVars>>

\* email() is called in the process and reaches its retry loop
CursorBegin(p) ==
    /\ handlers[p].pc = "idle"
    /\ handlers' = [handlers EXCEPT ![p].pc = "loop"]
    /\ UNCHANGED <<googleApiKeyIndex, cursorLog>>
    /\ CursorFrame

\* while (retryCount < maxRetries && !extractedData): getNextGoogleApiKey(env)
\* runs to its return (no await inside) and the request is sent
CursorGetKey(p) ==
    /\ handlers[p].pc = "loop"
    /\ handlers[p].retryCount < maxRetries
    /\ cursorLog' = Append(cursorLog, [key |-> ReturnedKey(googleApiKeyIndex, nKeys), by |-> p])
    /\ googleApiKeyIndex' = AdvanceCursor(googleApiKeyIndex, nKeys)
    /\ handlers' = [handlers EXCEPT ![p].pc = "fetch"]
    /\ CursorFrame

\* the request is answered: with a result (the loop ends), with nothing
\* usable (retryCount++), or fetch / response.json() throws (outer catch)
CursorAnswer(p, o) ==
    /\ handlers[p].pc = "fetch"
    /\ handlers' = [handlers EXCEPT
                      ![p].retryCount = IF o = "unusable" THEN @ + 1 ELSE @,
                      ![p].pc = IF o = "unusable" /\ handlers[p].retryCount + 1 < maxRetries
                                THEN "loop" ELSE "done"]
    /\ UNCHANGED <<googleApiKeyIndex, cursorLog>>
    /\ CursorFrame

CursorNext ==
    \E p \in CursorMails :
        \/ CursorBegin(p)
        \/ CursorGetKey(p)
        \/ \E o \in {"result", "unusable", "throw"} : CursorAnswer(p, o)

SpecCursor == CursorInit /\ [][CursorNext]_vars

\* the key indices returned by the calls s .. s + n - 1
Window(s, n) == { cursorLog[q].key : q \in s..(s + n - 1) }

\* C36: with a fixed non-empty key list of length N the cursor stays in
\* 0..N-1 after every call, successive calls return the keys in cyclic list
\* order, and any N consecutive calls, whichever retries and e-mails of the
\* process made them, return each key exactly once.
C36_CursorCyclesThroughKeys ==
    /\ googleApiKeyIndex \in 0..(nKeys - 1)
    /\ \A q \in 1..Len(cursorLog) : cursorLog[q].key \in 0..(nKeys - 1)
    /\ \A q \in 1..(Len(cursorLog) - 1) :
          cursorLog[q + 1].key = (cursorLog[q].key + 1) % nKeys
    /\ \A s \in 1..(Len(cursorLog) - nKeys + 1) : Window(s, nKeys) = 0..(nKeys - 1)

\* three keys, and a run of three consecutive calls that does not start at
\* the head of the list and was made by two e-mails, one of them retrying
C36_Witness ==
    /\ nKeys = 3
    /\ Len(cursorLog) >= 5
    /\ \E s \in 2..(Len(cursorLog) - 2) :
          /\ cursorLog[s].key # 0
          /\ cursorLog[s].by # cursorLog[s + 1].by
          /\ cursorLog[s].by = cursorLog[s + 2].by

=============================================================================
